---- MODULE Spec2Model ----
(***************************************************************************)
(* State-machine model of src/autonomous-agent.js (class                   *)
(* AutonomousHealthcareAgent, first definition, lines 25-2589): the chat   *)
(* session manager, the conversational configurator, candidate discovery,  *)
(* the site extractor, the per-lead pipeline sequencer and the deployment  *)
(* orchestrator.                                                           *)
(*                                                                         *)
(* Strings that the code inspects character by character (titles, urls,    *)
(* locations) are sequences of one-character strings; strings that the     *)
(* code only stores, compares or forwards are TLA+ strings.  An optional   *)
(* value (undefined / null in the source) is a sequence of length 0 or 1.  *)
(***************************************************************************)
EXTENDS Integers, Sequences, FiniteSets, TLC

VARIABLES
    \* ---- chat session manager (this.userContexts and the objects it holds)
    userContexts,   \* Map chatId -> context object, as an index into ctxHeap (0: no entry)
    ctxHeap,        \* the context objects ever allocated: {conversationHistory, lastWorkflowConfig}
    turns,          \* invocations of handleConversationalMessage, and of the handler of
                    \* POST /conversation, suspended at an await
    clock,          \* the wall clock read by new Date().toISOString()
    chatBudget,     \* the environment of the chat: updates still to be delivered, turns
                    \* that may overlap, the chats that write, the completions returned
    runsStarted,    \* calls of executeCustomAutonomousWorkflow made by turns, in order
    \* ---- candidate discovery
    disc,           \* one discovery call: its arguments, the search response, its result
    \* ---- site extractor
    ext,            \* one scrapeHealthcareWebsite call: its argument, the outcomes, its result
    \* ---- pipeline sequencer (executeAutonomousWorkflow / processHealthcareWebsite)
    run,            \* one batch run: candidates, loop index, lead-local values, results
    \* ---- synchronous helpers (passesCustomFilters, generatePracticeId)
    call            \* one call of a helper: its arguments and its return value

vars == <<userContexts, ctxHeap, turns, clock, chatBudget, runsStarted, disc, ext, run, call>>

----------------------------------------------------------------------------
(* Bounds of the model *)

\* requests delivered in the concurrent chat specification
MaxTurns == 2
\* requests delivered in the sequential, single-channel chat specification
LongTurns == 6
\* /start commands delivered
MaxStarts == 1

----------------------------------------------------------------------------
(* Generic helpers *)

\* Array.prototype.slice(-n): the last n elements
SliceLast(s, n) ==
    IF Len(s) <= n THEN s ELSE SubSeq(s, Len(s) - n + 1, Len(s))

\* Array.prototype.slice(0, n): the first n elements
SliceFirst(s, n) ==
    IF Len(s) <= n THEN s ELSE SubSeq(s, 1, n)

Range(s) == {s[k] : k \in DOMAIN s}

\* an optional value: absent, or present
None == <<>>
Some(x) == <<x>>

----------------------------------------------------------------------------
(* Chat session manager and conversational configurator *)

\* chat.id values of inbound updates
Channels == {1, 2}

\* update.message.text values that do not start with '/'
Messages == {"find 3 botox clinics"}

\* "Keep conversation history manageable (last 10 messages)"
HistoryCap == 10

\* workflowConfig objects the language model returns
WorkflowConfigs ==
    {[leadCount |-> 3, specialty |-> "botox", location |-> "berlin",
      filters |-> <<"exclude generic">>]}

\* response.data.choices[0].message.content values; ~~~ stands for the fence of
\* three backticks
Completions ==
    {"{chat}", "~~~json{workflow}~~~", "~~~{chat}~~~", "plain text", "5", "{bare}",
     "~~~oops~~~", ""}

\* cleanedContent.startsWith('```json') && cleanedContent.endsWith('```'), and
\* cleanedContent.startsWith('```') && cleanedContent.endsWith('```')
FenceOf(text) ==
    CASE text = "~~~json{workflow}~~~" -> "json"
      [] text = "~~~{chat}~~~" -> "generic"
      [] text = "~~~oops~~~" -> "generic"
      [] OTHER -> "none"

\* the two replace() calls that remove the fence
StripFence(text) ==
    CASE FenceOf(text) = "json" /\ text = "~~~json{workflow}~~~" -> "{workflow}"
      [] FenceOf(text) = "generic" /\ text = "~~~{chat}~~~" -> "{chat}"
      [] FenceOf(text) = "generic" /\ text = "~~~oops~~~" -> "oops"
      [] OTHER -> text

\* JSON.parse: the value, or a SyntaxError
JsonParse(text) ==
    CASE text = "{chat}" ->
            [ok |-> TRUE, type |-> "object", executeWorkflow |-> FALSE,
             response |-> Some("I can find clinics"), workflowConfig |-> None]
      [] text = "{workflow}" ->
            [ok |-> TRUE, type |-> "object", executeWorkflow |-> TRUE,
             response |-> Some("I'll find 3 botox practices"),
             workflowConfig |-> Some(CHOOSE c \in WorkflowConfigs : TRUE)]
      [] text = "{bare}" ->
            [ok |-> TRUE, type |-> "object", executeWorkflow |-> TRUE,
             response |-> None, workflowConfig |-> None]
      [] text = "5" ->
            [ok |-> TRUE, type |-> "number", executeWorkflow |-> FALSE,
             response |-> None, workflowConfig |-> None]
      [] OTHER ->
            [ok |-> FALSE, type |-> "undefined", executeWorkflow |-> FALSE,
             response |-> None, workflowConfig |-> None]

\* a configurator that lets the SyntaxError of JSON.parse escape to the outer catch
ProcessConversationalInputStrict(transportOk, aiContent) ==
    IF ~transportOk \/ ~JsonParse(StripFence(aiContent)).ok
    THEN [raised |-> TRUE, message |-> "AI model communication failed",
          value |-> JsonParse("")]
    ELSE [raised |-> FALSE, message |-> "", value |-> JsonParse(StripFence(aiContent))]

\* processConversationalInput after the request was sent: `transportOk` is whether
\* axios.post resolved, `aiContent` the completion text.  The result is the
\* returned value, or the raised Error.
ProcessConversationalInput(transportOk, aiContent) ==
    IF ~transportOk
    THEN [raised |-> TRUE, message |-> "AI model communication failed",
          value |-> JsonParse("")]
    ELSE LET parsed == JsonParse(StripFence(aiContent))
         IN  IF parsed.ok
             THEN [raised |-> FALSE, message |-> "", value |-> parsed]
             ELSE [raised |-> FALSE, message |-> "",
                   value |-> [ok |-> TRUE, type |-> "object", executeWorkflow |-> FALSE,
                              response |-> Some(aiContent), workflowConfig |-> None]]

\* the object handleStartCommand and handleConversationalMessage store for a chat
NewContext == [conversationHistory |-> <<>>, lastWorkflowConfig |-> None]

\* this.userContexts.has(chatId)
HasContext(chatId) == userContexts[chatId] # 0

\* a single context shared by every chat
ContextKeyShared(chatId) == 1

\* the key under which a chat's context is stored and looked up
ContextKey(chatId) == chatId

\* history.slice(-10) when the history holds more than 10 entries
TrimHistory(history) ==
    IF Len(history) > HistoryCap THEN SliceLast(history, HistoryCap) ELSE history

\* the history currently stored for a chat (empty when the chat has no context)
HistoryOf(chatId) ==
    IF HasContext(chatId) THEN ctxHeap[userContexts[chatId]].conversationHistory ELSE <<>>

\* aiResponse.response || 'AI processing completed'
AssistantContent(aiResponse) ==
    IF aiResponse.response # None /\ aiResponse.response[1] # ""
    THEN aiResponse.response[1] ELSE "AI processing completed"

\* aiResponse.executeWorkflow && aiResponse.workflowConfig
WantsWorkflow(aiResponse) ==
    aiResponse.executeWorkflow /\ aiResponse.workflowConfig # None

ChatInit ==
    /\ userContexts = [c \in Channels |-> 0]
    /\ ctxHeap = <<>>
    /\ turns = {}
    /\ clock = 1
    /\ runsStarted = <<>>

\* the suspended invocation t continues as u
Become(t, u) == (turns \ {t}) \cup {u}

\* POST /webhook/telegram with text '/start': handleStartCommand
HandleStartCommand(chatId) ==
    /\ chatBudget.starts > 0
    /\ chatId \in chatBudget.channels
    /\ ctxHeap' = Append(ctxHeap, NewContext)
    /\ userContexts' = [userContexts EXCEPT ![ContextKey(chatId)] = Len(ctxHeap) + 1]
    /\ chatBudget' = [chatBudget EXCEPT !.starts = @ - 1]
    /\ UNCHANGED <<turns, clock, runsStarted, disc, ext, run, call>>

\* POST /webhook/telegram with a text that is no command: handleConversationalMessage
\* up to its first await (lines 470-496)
HandleConversationalMessage(chatId, messageText) ==
    /\ chatBudget.updates > 0
    /\ chatId \in chatBudget.channels
    /\ Cardinality(turns) < chatBudget.inFlight
    /\ LET key == ContextKey(chatId)
           fresh == userContexts[key] = 0
           ref == IF fresh THEN Len(ctxHeap) + 1 ELSE userContexts[key]
           heap1 == IF fresh THEN Append(ctxHeap, NewContext) ELSE ctxHeap
           entry == [role |-> "user", content |-> messageText, timestamp |-> clock,
                     chatId |-> chatId]
           history == TrimHistory(Append(heap1[ref].conversationHistory, entry))
       IN  /\ userContexts' = [userContexts EXCEPT ![key] = ref]
           /\ ctxHeap' = [heap1 EXCEPT ![ref].conversationHistory = history]
           /\ turns' = turns \cup {[chatId |-> chatId, messageText |-> messageText,
                                    userContext |-> ref, pc |-> "processing",
                                    handed |-> <<>>, aiContent |-> None,
                                    aiResponse |-> None,
                                    started |-> clock]}
    /\ clock' = clock + 1
    /\ chatBudget' = [chatBudget EXCEPT !.updates = @ - 1]
    /\ UNCHANGED <<runsStarted, disc, ext, run, call>>

\* the 'AI is processing' message was sent (or not): line 496, then the call of
\* processConversationalInput up to its axios.post (lines 501, 549-618)
SendProcessing(t, sent) ==
    /\ t \in turns
    /\ t.pc = "processing"
    /\ IF sent
       THEN turns' = Become(t, [t EXCEPT !.pc = "ai",
                                   !.handed = ctxHeap[t.userContext].conversationHistory])
       ELSE turns' = Become(t, [t EXCEPT !.pc = "fatal"])
    /\ UNCHANGED <<userContexts, ctxHeap, clock, chatBudget, runsStarted, disc, ext, run, call>>

\* the completion request returned (or failed): lines 620-652 and 503-520
ReceiveCompletion(t, transportOk, aiContent) ==
    /\ t \in turns
    /\ t.pc = "ai"
    /\ LET r == ProcessConversationalInput(transportOk, aiContent)
           received == IF transportOk THEN Some(aiContent) ELSE None
           ref == t.userContext
           entry == [role |-> "assistant", content |-> AssistantContent(r.value),
                     timestamp |-> clock, chatId |-> t.chatId]
       IN  IF r.raised \/ r.value.type # "object"
           THEN /\ turns' = Become(t, [t EXCEPT !.pc = "apology",
                                                !.aiContent = received])
                /\ UNCHANGED <<ctxHeap, clock>>
           ELSE /\ ctxHeap' = [ctxHeap EXCEPT ![ref].conversationHistory = Append(@, entry)]
                /\ turns' = Become(t, [t EXCEPT !.pc = "reply", !.aiContent = Some(aiContent),
                                                !.aiResponse = Some(r.value)])
                /\ clock' = clock + 1
    /\ UNCHANGED <<userContexts, chatBudget, runsStarted, disc, ext, run, call>>

\* executeCustomAutonomousWorkflow(workflowConfig) is called by the turn t
StartRun(t, workflowConfig) ==
    Append(runsStarted, [turn |-> t.started, chatId |-> t.chatId,
                         workflowConfig |-> workflowConfig,
                         leadCount |-> workflowConfig.leadCount])

\* the reply was sent (or not): lines 520-526, up to the first await of
\* executeCustomWorkflowWithUpdates
SendReply(t, sent) ==
    /\ t \in turns
    /\ t.pc = "reply"
    /\ LET aiResponse == t.aiResponse[1]
           ref == t.userContext
       IN  IF ~sent
           THEN /\ turns' = Become(t, [t EXCEPT !.pc = "apology"])
                /\ UNCHANGED ctxHeap
           ELSE IF WantsWorkflow(aiResponse)
           THEN /\ ctxHeap' = [ctxHeap EXCEPT ![ref].lastWorkflowConfig =
                                                  aiResponse.workflowConfig]
                /\ turns' = Become(t, [t EXCEPT !.pc = "workflow"])
           ELSE /\ turns' = turns \ {t}
                /\ UNCHANGED ctxHeap
    /\ UNCHANGED <<userContexts, clock, chatBudget, runsStarted, disc, ext, run, call>>

\* executeCustomWorkflowWithUpdates from its first await to its return: the
\* 'Starting Custom Healthcare Lead Generation' message was sent (or not, line
\* 657); when it was, executeCustomAutonomousWorkflow is called and returns or
\* raises, and the last message is sent (lines 668-690); then the turn ends
ExecuteCustomWorkflowWithUpdates(t, sent) ==
    /\ t \in turns
    /\ t.pc = "workflow"
    /\ IF sent
       THEN runsStarted' = StartRun(t, t.aiResponse[1].workflowConfig[1])
       ELSE UNCHANGED runsStarted
    /\ turns' = turns \ {t}
    /\ UNCHANGED <<userContexts, ctxHeap, clock, chatBudget, disc, ext, run, call>>

\* the turn ends: the apology was sent (line 533), the outer handler ran (lines
\* 536-543), or the handler of POST /conversation returned
FinishTurn(t) ==
    /\ t \in turns
    /\ t.pc \in {"apology", "fatal", "responded"}
    /\ turns' = turns \ {t}
    /\ UNCHANGED <<userContexts, ctxHeap, clock, chatBudget, runsStarted, disc, ext, run, call>>

\* POST /conversation {message}: the handler up to its await of
\* processConversationalInput(message, []); a body without message is answered
\* with status 400.  The request belongs to no chat (chatId 0) and reads no
\* clock: `started` is the number of the request.
PostConversation(message) ==
    /\ chatBudget.updates > 0
    /\ Cardinality(turns) < chatBudget.inFlight
    /\ IF message = None
       THEN UNCHANGED turns
       ELSE turns' = turns \cup {[chatId |-> 0, messageText |-> message[1],
                                  userContext |-> 0, pc |-> "web", handed |-> <<>>,
                                  aiContent |-> None, aiResponse |-> None,
                                  started |-> chatBudget.updates]}
    /\ chatBudget' = [chatBudget EXCEPT !.updates = @ - 1]
    /\ UNCHANGED <<userContexts, ctxHeap, clock, runsStarted, disc, ext, run, call>>

\* the completion request of POST /conversation returned (or failed): the response
\* is sent and, when the result asks for it, the run is started and not awaited
\* (lines 197-227); a raised error is answered with status 500
ConversationCompleted(t, transportOk, aiContent) ==
    /\ t \in turns
    /\ t.pc = "web"
    /\ LET r == ProcessConversationalInput(transportOk, aiContent)
           received == IF transportOk THEN Some(aiContent) ELSE None
       IN  IF r.raised
           THEN /\ turns' = Become(t, [t EXCEPT !.pc = "responded",
                                                !.aiContent = received])
                /\ UNCHANGED runsStarted
           ELSE /\ turns' = Become(t, [t EXCEPT !.pc = "responded",
                                                !.aiContent = Some(aiContent),
                                                !.aiResponse = Some(r.value)])
                /\ IF WantsWorkflow(r.value)
                   THEN runsStarted' = StartRun(t, r.value.workflowConfig[1])
                   ELSE UNCHANGED runsStarted
    /\ UNCHANGED <<userContexts, ctxHeap, clock, chatBudget, disc, ext, run, call>>

----------------------------------------------------------------------------
(* Candidate discovery *)

\* String.prototype.toLowerCase on the characters that occur in the model
UpperToLower ==
    ("A" :> "a") @@ ("B" :> "b") @@ ("C" :> "c") @@ ("D" :> "d") @@ ("E" :> "e") @@
    ("F" :> "f") @@ ("G" :> "g") @@ ("H" :> "h") @@ ("I" :> "i") @@ ("J" :> "j") @@
    ("K" :> "k") @@ ("L" :> "l") @@ ("M" :> "m") @@ ("N" :> "n") @@ ("O" :> "o") @@
    ("P" :> "p") @@ ("Q" :> "q") @@ ("R" :> "r") @@ ("S" :> "s") @@ ("T" :> "t") @@
    ("U" :> "u") @@ ("V" :> "v") @@ ("W" :> "w") @@ ("X" :> "x") @@ ("Y" :> "y") @@
    ("Z" :> "z") @@ ("Ö" :> "ö") @@ ("Ü" :> "ü")

ToLowerCase(s) ==
    [k \in DOMAIN s |-> IF s[k] \in DOMAIN UpperToLower THEN UpperToLower[s[k]] ELSE s[k]]

\* String.prototype.includes
Includes(s, sub) ==
    \E k \in 0..(Len(s) - Len(sub)) : SubSeq(s, k + 1, k + Len(sub)) = sub

\* x || '' for an optional string
OrEmpty(x) == IF x = None THEN <<>> ELSE x[1]

\* the variants the location filter accepts for a lower-cased location
LocationVariants(location) ==
    {location}
    \cup (IF location = <<"a", "u", "s", "t", "r", "i", "a">>
          THEN {<<"ö", "s", "t", "e", "r", "r", "e", "i", "c", "h">>,
                <<"a", "t">>,
                <<".", "a", "t">>,
                <<"v", "i", "e", "n", "n", "a">>,
                <<"w", "i", "e", "n">>,
                <<"s", "a", "l", "z", "b", "u", "r", "g">>,
                <<"i", "n", "n", "s", "b", "r", "u", "c", "k">>,
                <<"g", "r", "a", "z">>,
                <<"l", "i", "n", "z">>}
          ELSE {})
    \cup (IF location = <<"n", "e", "t", "h", "e", "r", "l", "a", "n", "d", "s">>
          THEN {<<"n", "e", "d", "e", "r", "l", "a", "n", "d">>,
                <<"h", "o", "l", "l", "a", "n", "d">>,
                <<"n", "l">>,
                <<".", "n", "l">>,
                <<"a", "m", "s", "t", "e", "r", "d", "a", "m">>,
                <<"r", "o", "t", "t", "e", "r", "d", "a", "m">>,
                <<"d", "e", "n", " ", "h", "a", "a", "g">>,
                <<"u", "t", "r", "e", "c", "h", "t">>}
          ELSE {})
    \cup (IF location = <<"g", "e", "r", "m", "a", "n", "y">>
          THEN {<<"d", "e", "u", "t", "s", "c", "h", "l", "a", "n", "d">>,
                <<"d", "e">>,
                <<".", "d", "e">>,
                <<"b", "e", "r", "l", "i", "n">>,
                <<"m", "u", "n", "i", "c", "h">>,
                <<"m", "ü", "n", "c", "h", "e", "n">>,
                <<"h", "a", "m", "b", "u", "r", "g">>,
                <<"c", "o", "l", "o", "g", "n", "e">>,
                <<"k", "ö", "l", "n">>}
          ELSE {})

\* `${practice.title || ''} ${practice.url || ''} ${practice.text || ''}`.toLowerCase()
SearchText(practice) ==
    ToLowerCase(OrEmpty(practice.title) \o <<" ">> \o OrEmpty(practice.url)
                \o <<" ">> \o OrEmpty(practice.text))

\* the predicate of the location filter
PassesLocation(practice, location) ==
    \E variant \in LocationVariants(ToLowerCase(location)) :
        Includes(SearchText(practice), variant)

\* the predicate of the specialty filter
PassesSpecialty(practice, specialty) ==
    \/ practice.title # None
       /\ Includes(ToLowerCase(practice.title[1]), ToLowerCase(specialty))
    \/ practice.text # None
       /\ Includes(ToLowerCase(practice.text[1]), ToLowerCase(specialty))

\* a truthy optional string: present and not empty
Truthy(x) == x # None /\ x[1] # <<>>

\* Math.min(leadCount * 2, 20)
NumResults(leadCount) == IF leadCount * 2 < 20 THEN leadCount * 2 ELSE 20

\* the location filter of findHealthcarePracticesWithCustomEXA
ApplyLocationFilter(practices, workflowConfig) ==
    IF Truthy(workflowConfig.location)
    THEN LET Keep(practice) == PassesLocation(practice, workflowConfig.location[1])
         IN  SelectSeq(practices, Keep)
    ELSE practices

\* the result of the specialty filter is dropped
ApplySpecialtyFilterDropped(practices, workflowConfig) == practices

\* the specialty filter of findHealthcarePracticesWithCustomEXA
ApplySpecialtyFilter(practices, workflowConfig) ==
    IF Truthy(workflowConfig.specialty)
    THEN LET Keep(practice) == PassesSpecialty(practice, workflowConfig.specialty[1])
         IN  SelectSeq(practices, Keep)
    ELSE practices

\* findHealthcarePracticesWithCustomEXA once the search request has returned:
\* `response` is the outcome of axios.post
FindHealthcarePracticesWithCustomEXA(leadCount, workflowConfig, response) ==
    IF response.status # "ok"
    THEN [raised |-> TRUE, message |-> "Request failed", value |-> <<>>]
    ELSE LET practices == IF response.results = None THEN <<>> ELSE response.results[1]
         IN  IF Len(practices) = 0
             THEN [raised |-> FALSE, message |-> "", value |-> <<>>]
             ELSE [raised |-> FALSE, message |-> "",
                   value |-> SliceFirst(
                       ApplySpecialtyFilter(ApplyLocationFilter(practices, workflowConfig),
                                            workflowConfig),
                       leadCount)]

\* result => ({url, title, snippet: result.text || '', id})
ToCandidate(result) ==
    [url |-> result.url, title |-> result.title, snippet |-> Some(OrEmpty(result.text)),
     id |-> result.id]

\* findHealthcarePracticesWithEXA once the search request has returned:
\* `response` is the outcome of fetch
FindHealthcarePracticesWithEXA(count, response) ==
    IF response.status = "failed"
    THEN [raised |-> TRUE, message |-> "fetch failed", value |-> <<>>]
    ELSE IF response.status # "ok"
    THEN [raised |-> TRUE, message |-> "EXA API error", value |-> <<>>]
    ELSE IF response.results = None \/ Len(response.results[1]) = 0
    THEN [raised |-> TRUE, message |-> "No healthcare practices found by EXA", value |-> <<>>]
    ELSE [raised |-> FALSE, message |-> "",
          value |-> [k \in DOMAIN response.results[1] |-> ToCandidate(response.results[1][k])]]

\* the results the search collaborator answers with
SearchPool ==
    {[title |-> Some(<<"W", "i", "e", "n", " ", "D", "e", "r", "m", "a">>), url |-> Some(<<"h", "t", "t", "p", "s", ":", "/", "/", "d", "e", "r", "m", "a", ".", "a", "t">>),
      text |-> Some(<<"B", "o", "t", "o", "x", " ", "F", "i", "l", "l", "e", "r">>), id |-> 1],
     [title |-> Some(<<"B", "E", "R", "L", "I", "N", " ", "B", "o", "t", "o", "x">>), url |-> Some(<<"h", "t", "t", "p", "s", ":", "/", "/", "b", ".", "d", "e", "/">>),
      text |-> None, id |-> 2],
     [title |-> None, url |-> Some(<<"x", ".", "c", "o", "m">>),
      text |-> Some(<<"p", "a", "r", "i", "s", " ", "f", "i", "l", "l", "e", "r">>), id |-> 3]}

\* the longest result list the search collaborator answers with
MaxResults == 3

\* the largest count requested
MaxCount == 2

RECURSIVE SeqsUpTo(_, _)
SeqsUpTo(S, n) ==
    IF n = 0 THEN {<<>>}
    ELSE LET shorter == SeqsUpTo(S, n - 1)
         IN  shorter \cup {Append(q, x) : q \in {r \in shorter : Len(r) = n - 1}, x \in S}

\* outcomes of the search request
SearchResponses ==
    {[status |-> "failed", results |-> None], [status |-> "http500", results |-> None],
     [status |-> "ok", results |-> None]}
    \cup {[status |-> "ok", results |-> Some(q)] : q \in SeqsUpTo(SearchPool, MaxResults)}

\* workflowConfig.location and workflowConfig.specialty values
Locations == {None, Some(<<>>), Some(<<"A", "u", "s", "t", "r", "i", "a">>), Some(<<"b", "e", "r", "l", "i", "n">>)}
Specialties == {None, Some(<<"B", "O", "T", "O", "X">>), Some(<<"f", "i", "l", "l", "e", "r">>)}

\* the call is made: the search request is sent with numResults
DiscoverySend ==
    /\ disc.pc = "call"
    /\ disc' = [disc EXCEPT !.pc = "waiting",
                            !.numResults = IF disc.kind = "custom"
                                           THEN NumResults(disc.count) ELSE disc.count]
    /\ UNCHANGED <<userContexts, ctxHeap, turns, clock, chatBudget, runsStarted, ext, run, call>>

\* the search request returns: the rest of findHealthcarePracticesWithEXA
DiscoveryDefaultReturn ==
    /\ disc.pc = "waiting"
    /\ disc.kind = "default"
    /\ \E response \in SearchResponses :
          disc' = [disc EXCEPT !.pc = "done", !.response = response,
                               !.result = FindHealthcarePracticesWithEXA(disc.count, response)]
    /\ UNCHANGED <<userContexts, ctxHeap, turns, clock, chatBudget, runsStarted, ext, run, call>>

\* the search request returns: the rest of findHealthcarePracticesWithCustomEXA
DiscoveryCustomReturn ==
    /\ disc.pc = "waiting"
    /\ disc.kind = "custom"
    /\ \E response \in SearchResponses :
          disc' = [disc EXCEPT !.pc = "done", !.response = response,
                               !.result = FindHealthcarePracticesWithCustomEXA(
                                              disc.count, disc.workflowConfig, response)]
    /\ UNCHANGED <<userContexts, ctxHeap, turns, clock, chatBudget, runsStarted, ext, run, call>>

----------------------------------------------------------------------------
(* Site extractor *)

StartsWith(s, prefix) ==
    Len(s) >= Len(prefix) /\ SubSeq(s, 1, Len(prefix)) = prefix

EndsWith(s, suffix) ==
    Len(s) >= Len(suffix) /\ SubSeq(s, Len(s) - Len(suffix) + 1, Len(s)) = suffix

\* String.prototype.substring(0, n)
Substring0(s, n) == IF Len(s) <= n THEN s ELSE SubSeq(s, 1, n)

\* .replace(/^www\./, '')
StripWww(s) ==
    IF StartsWith(s, <<"w", "w", "w", ".">>) THEN SubSeq(s, 5, Len(s)) ELSE s

\* .replace(/\.(com|co\.uk|org|net)$/, '')
StripTld(s) ==
    IF EndsWith(s, <<".", "c", "o", "m">>) THEN SubSeq(s, 1, Len(s) - 4)
    ELSE IF EndsWith(s, <<".", "c", "o", ".", "u", "k">>) THEN SubSeq(s, 1, Len(s) - 6)
    ELSE IF EndsWith(s, <<".", "o", "r", "g">>) THEN SubSeq(s, 1, Len(s) - 4)
    ELSE IF EndsWith(s, <<".", "n", "e", "t">>) THEN SubSeq(s, 1, Len(s) - 4)
    ELSE s

\* the characters of [a-z0-9]
AlphaNum ==
    {"a", "b", "c", "d", "e", "f", "g", "h", "i", "j", "k", "l", "m", "n", "o", "p", "q", "r", "s", "t", "u", "v", "w", "x", "y", "z", "0", "1", "2", "3", "4", "5", "6", "7", "8", "9"}

\* .replace(/[^a-z0-9]/g, '-')
Hyphenate(s) == [k \in DOMAIN s |-> IF s[k] \in AlphaNum THEN s[k] ELSE "-"]

\* .replace(/-+/g, '-')
RECURSIVE CollapseHyphens(_)
CollapseHyphens(s) ==
    IF Len(s) < 2 THEN s
    ELSE IF s[1] = "-" /\ s[2] = "-" THEN CollapseHyphens(Tail(s))
    ELSE <<s[1]>> \o CollapseHyphens(Tail(s))

\* .replace(/^-|-$/g, '')
TrimHyphens(s) ==
    LET noLead == IF s # <<>> /\ s[1] = "-" THEN Tail(s) ELSE s
    IN  IF noLead # <<>> /\ noLead[Len(noLead)] = "-"
        THEN SubSeq(noLead, 1, Len(noLead) - 1) ELSE noLead

\* the length generatePracticeId cuts the id to
PracticeIdLength == 25

\* generatePracticeId
GeneratePracticeId(domain) ==
    Substring0(
        TrimHyphens(CollapseHyphens(Hyphenate(ToLowerCase(StripTld(StripWww(domain)))))),
        PracticeIdLength)

\* String.prototype.toUpperCase on one character
ToUpperChar(ch) ==
    IF \E u \in DOMAIN UpperToLower : UpperToLower[u] = ch
    THEN CHOOSE u \in DOMAIN UpperToLower : UpperToLower[u] = ch
    ELSE ch

\* extractCompanyFromDomain: the words between '-' and '.', capitalised, joined by
\* spaces, followed by ' Clinic'
ExtractCompanyFromDomain(domain) ==
    LET name == StripTld(StripWww(domain))
        IsSep(ch) == ch \in {"-", "."}
    IN  [k \in DOMAIN name |->
            IF IsSep(name[k]) THEN " "
            ELSE IF k = 1 \/ IsSep(name[k - 1]) THEN ToUpperChar(name[k])
            ELSE name[k]]
        \o <<" ", "C", "l", "i", "n", "i", "c">>

\* the characters of s before the first occurrence of ch (all of s without one)
RECURSIVE UpTo(_, _)
UpTo(s, ch) ==
    IF s = <<>> \/ Head(s) = ch THEN <<>> ELSE <<Head(s)>> \o UpTo(Tail(s), ch)

\* new URL(url).hostname for the urls of the model: the characters between
\* 'https://' and the next '/'; absent when the constructor throws (TypeError:
\* Invalid URL)
Hostname(url) ==
    IF url # None /\ StartsWith(url[1], <<"h", "t", "t", "p", "s", ":", "/", "/">>) /\ Len(url[1]) > 8 /\ url[1][9] # "/"
    THEN Some(UpTo(SubSeq(url[1], 9, Len(url[1])), "/"))
    ELSE None

\* the urls the extractor is called with
Urls ==
    {Some(<<"h", "t", "t", "p", "s", ":", "/", "/", "w", "w", "w", ".", "g", "l", "o", "w", "-", "c", "l", "i", "n", "i", "c", ".", "c", "o", ".", "u", "k", "/">>),
     Some(<<"h", "t", "t", "p", "s", ":", "/", "/", "s", "k", "i", "n", ".", "d", "e", "/", "b", "o", "t", "o", "x">>),
     Some(<<"g", "l", "o", "w", " ", "c", "l", "i", "n", "i", "c">>)}

\* outcomes of the page fetch: the request fails, or answers with a status
FetchOutcomes == {"failed", "http404", "ok"}

\* outcomes of a completion request: the request fails, answers with a non-success
\* status, answers without choices[0].message.content, or answers with a text
ServiceOutcomes ==
    {[status |-> "failed", content |-> None], [status |-> "http500", content |-> None],
     [status |-> "ok", content |-> None]}
    \cup {[status |-> "ok", content |-> Some(text)] :
            text \in {"Sorry, no services", "[]", "null", "{\"a\":1}",
                      "[\"Botox\",\"Fillers\"]", "[\"A\",\"B\",\"C\",\"D\",\"E\"]"}}

LocationOutcomes ==
    {[status |-> "failed", content |-> None], [status |-> "http500", content |-> None],
     [status |-> "ok", content |-> None]}
    \cup {[status |-> "ok", content |-> Some(text)] : text \in {"", "null", " London, UK "}}

\* JSON.parse of the services completion: whether it parses, whether the value is
\* an array, and the array
ParseServices(text) ==
    CASE text = "[]" -> [ok |-> TRUE, isArray |-> TRUE, items |-> <<>>]
      [] text = "[\"Botox\",\"Fillers\"]" ->
            [ok |-> TRUE, isArray |-> TRUE, items |-> <<"Botox", "Fillers">>]
      [] text = "[\"A\",\"B\",\"C\",\"D\",\"E\"]" ->
            [ok |-> TRUE, isArray |-> TRUE, items |-> <<"A", "B", "C", "D", "E">>]
      [] text = "null" -> [ok |-> TRUE, isArray |-> FALSE, items |-> <<>>]
      [] text = "{\"a\":1}" -> [ok |-> TRUE, isArray |-> FALSE, items |-> <<>>]
      [] OTHER -> [ok |-> FALSE, isArray |-> FALSE, items |-> <<>>]

\* String.prototype.trim on the location completions
TrimText(text) == IF text = " London, UK " THEN "London, UK" ELSE text

\* extractServicesWithGLM: the array of services, or null
ExtractServicesWithGLM(outcome) ==
    IF outcome.status # "ok" THEN None
    ELSE IF outcome.content = None THEN None
    ELSE LET services == ParseServices(outcome.content[1])
         IN  IF services.ok /\ services.isArray
             THEN Some(SliceFirst(services.items, 4)) ELSE None

\* extractLocationWithGLM: the location, or null
ExtractLocationWithGLM(outcome) ==
    IF outcome.status # "ok" THEN None
    ELSE IF outcome.content = None THEN None
    ELSE LET location == TrimText(outcome.content[1])
         IN  IF location # "" /\ location # "null" THEN Some(location) ELSE None

\* extractServicesWithGLM(html) || [...]: an array, even an empty one, is truthy
ServicesOrDefault(services) ==
    IF services # None THEN services[1]
    ELSE <<"Aesthetic Treatments", "Cosmetic Surgery", "Dermatology">>

\* extractLocationWithGLM(html) || 'Professional Healthcare Location'
LocationOrDefault(location) ==
    IF location # None THEN location[1] ELSE "Professional Healthcare Location"

\* the practiceData object of the try block
PracticeData(url, services, location) ==
    [company |-> ExtractCompanyFromDomain(Hostname(url)[1]),
     contactName |-> ExtractCompanyFromDomain(Hostname(url)[1]) \o <<" ", "T", "e", "a", "m">>,
     practiceId |-> GeneratePracticeId(Hostname(url)[1]),
     location |-> location, services |-> services,
     leadSource |-> "clinic-team-version", leadScore |-> 80, isGeneralVersion |-> TRUE]

\* the object the catch block returns
FallbackData(url) ==
    [company |-> ExtractCompanyFromDomain(Hostname(url)[1]),
     contactName |-> ExtractCompanyFromDomain(Hostname(url)[1]) \o <<" ", "T", "e", "a", "m">>,
     practiceId |-> GeneratePracticeId(Hostname(url)[1]),
     location |-> "Unknown Location", services |-> <<"Healthcare Services">>,
     leadSource |-> "fallback-extraction", leadScore |-> 60, isGeneralVersion |-> TRUE]

NoData ==
    [company |-> <<>>, contactName |-> <<>>, practiceId |-> <<>>, location |-> "", services |-> <<>>,
     leadSource |-> "", leadScore |-> 0, isGeneralVersion |-> FALSE]

\* scrapeHealthcareWebsite as a function of its argument and of the outcomes of
\* its three requests: the returned profile, or the raised error
ScrapeHealthcareWebsite(url, fetched, servicesOutcome, locationOutcome) ==
    IF Hostname(url) = None
    THEN [raised |-> TRUE, message |-> "Invalid URL", value |-> NoData]
    ELSE IF fetched # "ok"
    THEN [raised |-> FALSE, message |-> "", value |-> FallbackData(url)]
    ELSE [raised |-> FALSE, message |-> "",
          value |-> PracticeData(url,
                        ServicesOrDefault(ExtractServicesWithGLM(servicesOutcome)),
                        LocationOrDefault(ExtractLocationWithGLM(locationOutcome)))]

NoOutcome == [status |-> "none", content |-> None]

\* scrapeHealthcareWebsite up to its page fetch (lines 1120-1130); an invalid url
\* raises in the try block and again in the catch block
ScrapeCall ==
    /\ ext.pc = "call"
    /\ IF Hostname(ext.url) = None
       THEN ext' = [ext EXCEPT !.pc = "done",
                      !.result = ScrapeHealthcareWebsite(ext.url, "ok", NoOutcome, NoOutcome)]
       ELSE ext' = [ext EXCEPT !.pc = "fetching"]
    /\ UNCHANGED <<userContexts, ctxHeap, turns, clock, chatBudget, runsStarted, disc, run, call>>

\* the page fetch returns (lines 1132-1136, 1168-1192)
ScrapeFetched ==
    /\ ext.pc = "fetching"
    /\ \E fetched \in FetchOutcomes :
          IF fetched = "ok"
          THEN ext' = [ext EXCEPT !.pc = "services", !.fetched = fetched]
          ELSE ext' = [ext EXCEPT !.pc = "done", !.fetched = fetched,
                         !.result = ScrapeHealthcareWebsite(ext.url, fetched,
                                                            NoOutcome, NoOutcome)]
    /\ UNCHANGED <<userContexts, ctxHeap, turns, clock, chatBudget, runsStarted, disc, run, call>>

\* the services request returns (line 1140)
ScrapeServices ==
    /\ ext.pc = "services"
    /\ \E outcome \in ServiceOutcomes :
          ext' = [ext EXCEPT !.pc = "location", !.servicesOutcome = outcome]
    /\ UNCHANGED <<userContexts, ctxHeap, turns, clock, chatBudget, runsStarted, disc, run, call>>

\* the location request returns (lines 1141-1166)
ScrapeLocation ==
    /\ ext.pc = "location"
    /\ \E outcome \in LocationOutcomes :
          ext' = [ext EXCEPT !.pc = "done", !.locationOutcome = outcome,
                    !.result = ScrapeHealthcareWebsite(ext.url, ext.fetched,
                                                       ext.servicesOutcome, outcome)]
    /\ UNCHANGED <<userContexts, ctxHeap, turns, clock, chatBudget, runsStarted, disc, run, call>>

----------------------------------------------------------------------------
(* Filter engine: passesCustomFilters *)

\* String.prototype.replace(/w1|w2/g, ''): every occurrence of one of the words is
\* removed, scanning from the left (no word of a pair is a prefix of the other)
RECURSIVE RemoveWords(_, _)
RemoveWords(s, words) ==
    IF s = <<>> THEN <<>>
    ELSE IF \E w \in words : StartsWith(s, w)
    THEN LET w == CHOOSE v \in words : StartsWith(s, v)
         IN  RemoveWords(SubSeq(s, Len(w) + 1, Len(s)), words)
    ELSE <<Head(s)>> \o RemoveWords(Tail(s), words)

\* String.prototype.trim, on strings whose only white space is the space
RECURSIVE Trim(_)
Trim(s) ==
    IF s # <<>> /\ Head(s) = " " THEN Trim(Tail(s))
    ELSE IF s # <<>> /\ s[Len(s)] = " " THEN Trim(SubSeq(s, 1, Len(s) - 1))
    ELSE s

\* String.prototype.split(' '): the pieces between the spaces, empty ones included
RECURSIVE SplitOnSpace(_)
SplitOnSpace(s) ==
    LET first == UpTo(s, " ")
    IN  IF Len(first) = Len(s) THEN <<first>>
        ELSE <<first>> \o SplitOnSpace(SubSeq(s, Len(first) + 2, Len(s)))

\* filterLower.replace(/exclude|avoid/g, '').trim().split(' '), and the same for
\* /require|must/g
FilterTerms(filterLower, words) == SplitOnSpace(Trim(RemoveWords(filterLower, words)))

\* term && (titleLower.includes(term) || textLower.includes(term))
MatchesTerm(practice, term) ==
    /\ term # <<>>
    /\ \/ Includes(ToLowerCase(OrEmpty(practice.title)), term)
       \/ Includes(ToLowerCase(OrEmpty(practice.text)), term)

ExcludeWords == {<<"e", "x", "c", "l", "u", "d", "e">>, <<"a", "v", "o", "i", "d">>}
RequireWords == {<<"r", "e", "q", "u", "i", "r", "e">>, <<"m", "u", "s", "t">>}

\* the loop body with its two branches in the other order: the requirement branch
\* is tested first
FilterRejectsRequireFirst(practice, filter) ==
    LET filterLower == ToLowerCase(filter)
    IN  IF \E w \in RequireWords : Includes(filterLower, w)
        THEN LET requireTerms == FilterTerms(filterLower, RequireWords)
             IN  ~\E k \in DOMAIN requireTerms : MatchesTerm(practice, requireTerms[k])
        ELSE IF \E w \in ExcludeWords : Includes(filterLower, w)
        THEN LET excludeTerms == FilterTerms(filterLower, ExcludeWords)
             IN  \E k \in DOMAIN excludeTerms : MatchesTerm(practice, excludeTerms[k])
        ELSE FALSE

\* one iteration of the loop over the filters: whether it returns false
FilterRejects(practice, filter) ==
    LET filterLower == ToLowerCase(filter)
    IN  IF \E w \in ExcludeWords : Includes(filterLower, w)
        THEN LET excludeTerms == FilterTerms(filterLower, ExcludeWords)
             IN  \E k \in DOMAIN excludeTerms : MatchesTerm(practice, excludeTerms[k])
        ELSE IF \E w \in RequireWords : Includes(filterLower, w)
        THEN LET requireTerms == FilterTerms(filterLower, RequireWords)
             IN  ~\E k \in DOMAIN requireTerms : MatchesTerm(practice, requireTerms[k])
        ELSE FALSE

\* passesCustomFilters that returns after its first filter
PassesCustomFiltersFirstOnly(practice, filters) ==
    IF filters = <<>> THEN TRUE ELSE ~FilterRejects(practice, Head(filters))

\* passesCustomFilters: false at the first filter that rejects, true after the last
RECURSIVE PassesCustomFilters(_, _)
PassesCustomFilters(practice, filters) ==
    IF filters = <<>> THEN TRUE
    ELSE IF FilterRejects(practice, Head(filters)) THEN FALSE
    ELSE PassesCustomFilters(practice, Tail(filters))

\* the longest filter list
MaxFilters == 2

\* the entries of workflowConfig.filters
FilterPool ==
    {<<"e", "x", "c", "l", "u", "d", "e", " ", "b", "o", "t", "o", "x">>,
     <<"E", "x", "c", "l", "u", "d", "e", " ", "H", "a", "i", "r", " ", "T", "r", "a", "n", "s", "p", "l", "a", "n", "t">>,
     <<"r", "e", "q", "u", "i", "r", "e", " ", "l", "a", "s", "e", "r">>,
     <<"e", "x", "c", "l", "u", "d", "e", " ", "u", "n", "a", "v", "o", "i", "d", "a", "b", "l", "e">>,
     <<"p", "r", "e", "m", "i", "u", "m", " ", "o", "n", "l", "y">>,
     <<"m", "u", "s", "t", " ", "a", "v", "o", "i", "d", " ", "b", "o", "t", "o", "x">>}

\* the candidates the filter engine is called with
FilterPractices ==
    {[title |-> Some(<<"B", "O", "T", "O", "X", " ", "W", "i", "e", "n">>), text |-> Some(<<"l", "a", "s", "e", "r", " ", "a", "n", "d", " ", "f", "i", "l", "l", "e", "r", "s">>)],
     [title |-> Some(<<"H", "a", "i", "r", " ", "T", "r", "a", "n", "s", "p", "l", "a", "n", "t", " ", "C", "e", "n", "t", "e", "r">>), text |-> None],
     [title |-> None, text |-> Some(<<"U", "n", "a", "v", "o", "i", "d", "a", "b", "l", "e", " ", "s", "c", "a", "r", "s", " ", "t", "r", "e", "a", "t", "e", "d">>)],
     [title |-> Some(<<"S", "k", "i", "n", " ", "C", "l", "i", "n", "i", "c">>), text |-> Some(<<"d", "e", "r", "m", "a", "t", "o", "l", "o", "g", "y">>)]}

\* this.passesCustomFilters(practice, workflowConfig.filters) is called and returns
PassesCustomFiltersCall ==
    /\ call.pc = "call" /\ call.fn = "passesCustomFilters"
    /\ call' = [call EXCEPT !.pc = "done",
                   !.passes = PassesCustomFilters(call.practice, call.filters)]
    /\ UNCHANGED <<userContexts, ctxHeap, turns, clock, chatBudget, runsStarted, disc, ext, run>>

----------------------------------------------------------------------------
(* Practice ids: generatePracticeId *)

\* the domains generatePracticeId is called with: an optional 'www.', a name and
\* a suffix
Domains ==
    {prefix \o name \o suffix :
        prefix \in {<<>>, <<"w", "w", "w", ".">>},
        name \in {<<"s", "k", "i", "n">>,
                  <<"G", "l", "o", "w", "-", "C", "l", "i", "n", "i", "c">>,
                  <<"a", "d", "v", "a", "n", "c", "e", "d", "-", "a", "e", "s", "t", "h", "e", "t", "i", "c", "s", "-", "c", "a", "r", "e", "-", "c", "e", "n", "t", "r", "e">>,
                  <<"d", "r", ".", "s", "m", "i", "t", "h", "-", "-", "l", "a", "s", "e", "r">>,
                  <<"h", "a", "r", "l", "e", "y", "-", "s", "t", "r", "e", "e", "t", "-", "s", "k", "i", "n", "-", "c", "l", "i", "n", "i", "c", "-", "l", "o", "n", "d", "o", "n">>,
                  <<"a", "1">>},
        suffix \in {<<".", "c", "o", "m">>, <<".", "c", "o", ".", "u", "k">>, <<".", "d", "e">>, <<".", "o", "r", "g">>, <<".", "n", "e", "t">>}}

\* this.generatePracticeId(domain) is called and returns
GeneratePracticeIdCall ==
    /\ call.pc = "call" /\ call.fn = "generatePracticeId"
    /\ call' = [call EXCEPT !.pc = "done", !.practiceId = GeneratePracticeId(call.domain)]
    /\ UNCHANGED <<userContexts, ctxHeap, turns, clock, chatBudget, runsStarted, disc, ext, run>>

----------------------------------------------------------------------------
(* Lead pipeline: store, voice agent, repository, deployment *)

\* a url, as its host and the path after the host's '/'
Url(host, path) == [host |-> host, path |-> path]

NoUrl == Url(<<>>, <<>>)

\* outcomes of the request that creates the lead's page in the store
StoreOutcomes == {"ok", "failed"}

\* storeLeadInNotion with a catch block that logs the error and returns a page
\* without an id
StoreLeadInNotionSwallowing(outcome, pageId) ==
    IF outcome = "ok"
    THEN [raised |-> FALSE, message |-> "", value |-> [id |-> pageId]]
    ELSE [raised |-> FALSE, message |-> "", value |-> [id |-> 0]]

\* storeLeadInNotion: the created page, or the wrapped error
StoreLeadInNotion(outcome, pageId) ==
    IF outcome = "ok"
    THEN [raised |-> FALSE, message |-> "", value |-> [id |-> pageId]]
    ELSE [raised |-> TRUE, message |-> "Notion storage failed: Request failed",
          value |-> [id |-> 0]]

\* createElevenLabsAgent: `agent_${Date.now()}_${practiceData.practiceId}` (the
\* clock reading is left out)
CreateElevenLabsAgent(practiceData) == <<"a", "g", "e", "n", "t", "_">> \o practiceData.practiceId

\* repository.owner.login of the repositories the account creates
OwnerLogin == <<"a", "c", "m", "e">>

\* outcomes of repository materialization: the create request fails, or cloning,
\* generating the files, committing or pushing fails, or all of it succeeds
RepositoryOutcomes ==
    {"ok", "createFailed", "cloneFailed", "writeFailed", "commitFailed", "pushFailed"}

NoRepository ==
    [name |-> <<>>, full_name |-> <<>>, html_url |-> NoUrl, owner |-> [login |-> <<>>]]

\* createPersonalizedRepository that does not wait for personalizeRepository: only
\* the failure of the create request is raised
CreatePersonalizedRepositoryUnawaited(practiceData, outcome) ==
    LET repoName == practiceData.practiceId \o <<"-", "d", "e", "m", "o">>
    IN  IF outcome = "createFailed"
        THEN [raised |-> TRUE, message |-> "Repository creation failed: Request failed",
              value |-> NoRepository]
        ELSE [raised |-> FALSE, message |-> "",
              value |-> [name |-> repoName,
                         full_name |-> OwnerLogin \o <<"/">> \o repoName,
                         html_url |-> Url(<<"g", "i", "t", "h", "u", "b", ".", "c", "o", "m">>, OwnerLogin \o <<"/">> \o repoName),
                         owner |-> [login |-> OwnerLogin]]]

\* createPersonalizedRepository: the repository the create request answers with
\* (`${practiceData.practiceId}-demo-${timestamp}`, the clock reading left out), or
\* the wrapped error
CreatePersonalizedRepository(practiceData, outcome) ==
    LET repoName == practiceData.practiceId \o <<"-", "d", "e", "m", "o">>
    IN  CASE outcome = "createFailed" ->
                [raised |-> TRUE, message |-> "Repository creation failed: Request failed",
                 value |-> NoRepository]
          [] outcome \in {"cloneFailed", "writeFailed", "commitFailed", "pushFailed"} ->
                [raised |-> TRUE,
                 message |-> "Repository creation failed: Repository personalization failed: Command failed",
                 value |-> NoRepository]
          [] OTHER ->
                [raised |-> FALSE, message |-> "",
                 value |-> [name |-> repoName,
                            full_name |-> OwnerLogin \o <<"/">> \o repoName,
                            html_url |-> Url(<<"g", "i", "t", "h", "u", "b", ".", "c", "o", "m">>, OwnerLogin \o <<"/">> \o repoName),
                            owner |-> [login |-> OwnerLogin]]]

\* outcomes of a mutation request of the deployment collaborator: it answers with
\* the created object, or with `errors` / no data / a transport failure
MutationOutcomes == {"ok", "errors"}

\* outcomes of the environments query: a failure, or the list of environments
EnvironmentOutcomes ==
    {None, Some(<<>>),
     Some(<<[id |-> "env-1", name |-> "production"]>>),
     Some(<<[id |-> "env-1", name |-> "staging"], [id |-> "env-2", name |-> "production"]>>),
     Some(<<[id |-> "env-1", name |-> "staging"]>>)}

\* outcomes of the domainCreate mutation
DomainOutcomes ==
    {[status |-> "failed", domain |-> <<>>], [status |-> "errors", domain |-> <<>>],
     [status |-> "ok", domain |-> <<"d", "e", "m", "o", ".", "u", "p", ".", "r", "a", "i", "l", "w", "a", "y", ".", "a", "p", "p">>]}

\* what the deployment collaborator answers during one deployment
RailwayOutcomes ==
    [project : MutationOutcomes, environments : EnvironmentOutcomes,
     service : MutationOutcomes, variables : MutationOutcomes, domain : DomainOutcomes]

NoRailway ==
    [project |-> "none", environments |-> None, service |-> "none", variables |-> "none",
     domain |-> [status |-> "none", domain |-> <<>>]]

\* railwayCreateProject
RailwayCreateProject(outcome) ==
    IF outcome = "ok"
    THEN [raised |-> FALSE, message |-> "", value |-> [id |-> "project-1"]]
    ELSE [raised |-> TRUE, message |-> "Railway GraphQL errors", value |-> [id |-> ""]]

\* railwayGetEnvironments
RailwayGetEnvironments(outcome) ==
    IF outcome # None
    THEN [raised |-> FALSE, message |-> "", value |-> outcome[1]]
    ELSE [raised |-> TRUE, message |-> "Request failed", value |-> <<>>]

\* the choice of prodEnv that always takes the first listed environment
ProdEnvFirst(environments) ==
    IF environments # <<>> THEN Some(environments[1]) ELSE None

\* environments.find(env => env.name === 'production') || environments[0];
\* undefined for an empty list
ProdEnv(environments) ==
    IF \E k \in DOMAIN environments : environments[k].name = "production"
    THEN Some(environments[CHOOSE k \in DOMAIN environments :
                  /\ environments[k].name = "production"
                  /\ \A j \in 1..(k - 1) : environments[j].name # "production"])
    ELSE IF environments # <<>> THEN Some(environments[1])
    ELSE None

\* railwayCreateService
RailwayCreateService(outcome) ==
    IF outcome = "ok"
    THEN [raised |-> FALSE, message |-> "", value |-> [id |-> "service-1"]]
    ELSE [raised |-> TRUE, message |-> "Railway Service GraphQL errors", value |-> [id |-> ""]]

\* new Promise((resolve, reject) => { const process = spawn('railway', ...,
\* {env: {...process.env, ...}}) ... }): the initializer of `process` reads the
\* binding it declares, so the executor throws a ReferenceError before the command
\* line tool is started, and the promise rejects
RailwayCli ==
    [raised |-> TRUE, message |-> "Cannot access 'process' before initialization",
     domain |-> <<>>]

\* railwaySetVariables whose second tier raises its error
RailwaySetVariablesRaising(cli, outcome) ==
    [raised |-> cli.raised /\ outcome # "ok",
     message |-> IF cli.raised /\ outcome # "ok" THEN "GraphQL error" ELSE "",
     value |-> IF ~cli.raised THEN "cli" ELSE IF outcome = "ok" THEN "graphql" ELSE "none"]

\* railwaySetVariables: the command line tool, then the variableUpsert mutations;
\* the failure of both is logged and swallowed. The value is the tier that set
\* the variables
RailwaySetVariables(cli, outcome) ==
    [raised |-> FALSE, message |-> "",
     value |-> IF ~cli.raised THEN "cli" ELSE IF outcome = "ok" THEN "graphql" ELSE "none"]

\* railwayCreateDomain without its second tier: the error of the command line
\* tool is raised
RailwayCreateDomainCliOnly(cli, outcome) ==
    IF ~cli.raised
    THEN [raised |-> FALSE, message |-> "",
          value |-> [url |-> Url(cli.domain, <<>>), domain |-> cli.domain]]
    ELSE [raised |-> TRUE, message |-> cli.message,
          value |-> [url |-> NoUrl, domain |-> <<>>]]

\* railwayCreateDomain: the command line tool (tier 1), then the domainCreate
\* mutation (tier 2); raises when both fail
RailwayCreateDomain(cli, outcome) ==
    IF ~cli.raised
    THEN [raised |-> FALSE, message |-> "",
          value |-> [url |-> Url(cli.domain, <<>>), domain |-> cli.domain]]
    ELSE IF outcome.status = "ok"
    THEN [raised |-> FALSE, message |-> "",
          value |-> [url |-> Url(outcome.domain, <<>>), domain |-> outcome.domain]]
    ELSE [raised |-> TRUE, message |-> "Railway domain creation completely failed",
          value |-> [url |-> NoUrl, domain |-> <<>>]]

\* the static-hosting url under the repository's full name on the code host
FallbackUrlOnCodeHost(repository) == Url(<<"g", "i", "t", "h", "u", "b", ".", "c", "o", "m">>, repository.full_name)

\* `https://${repository.owner.login}.github.io/${repository.name}`
FallbackUrl(repository) == Url(repository.owner.login \o <<".", "g", "i", "t", "h", "u", "b", ".", "i", "o">>, repository.name)

NoDeployment == [url |-> NoUrl, status |-> "", deploymentMethod |-> ""]

\* whether the try block of deployToRailway throws: a request of the
\* collaborator raises, or prodEnv is undefined when prodEnv.id is read
DeployThrows(railway) ==
    LET project == RailwayCreateProject(railway.project)
        environments == RailwayGetEnvironments(railway.environments)
        service == RailwayCreateService(railway.service)
    IN  \/ project.raised
        \/ environments.raised
        \/ service.raised
        \/ ProdEnv(environments.value) = None
        \/ RailwaySetVariables(RailwayCli, railway.variables).raised
        \/ RailwayCreateDomain(RailwayCli, railway.domain).raised

\* deployToRailway with its catch block re-raising the error
DeployToRailwayRethrow(practiceData, repository, railway) ==
    IF DeployThrows(railway)
    THEN [raised |-> TRUE, message |-> "Railway deployment failed", value |-> NoDeployment]
    ELSE [raised |-> FALSE, message |-> "",
          value |-> [url |-> RailwayCreateDomain(RailwayCli, railway.domain).value.url,
                     status |-> "deployed", deploymentMethod |-> "railway-mcp-direct"]]

\* deployToRailway: the deployed domain, or in the catch block the static fallback
DeployToRailway(practiceData, repository, railway) ==
    IF DeployThrows(railway)
    THEN [raised |-> FALSE, message |-> "",
          value |-> [url |-> FallbackUrl(repository), status |-> "fallback",
                     deploymentMethod |-> "github-pages"]]
    ELSE [raised |-> FALSE, message |-> "",
          value |-> [url |-> RailwayCreateDomain(RailwayCli, railway.domain).value.url,
                     status |-> "deployed", deploymentMethod |-> "railway-mcp-direct"]]

\* the properties storeLeadInNotion gives the page it creates that a later update
\* overwrites: 'Agent ID' pending, 'Demo URL' null (lines 1320-1321)
CreateRequest == [op |-> "create", pageId |-> 0, demoUrl |-> None, agentId |-> <<"p", "e", "n", "d", "i", "n", "g">>]

\* an update that leaves out the demo url
UpdateRequestWithoutUrl(notionPageId, demoUrl, agentId) ==
    [op |-> "update", pageId |-> notionPageId, demoUrl |-> None, agentId |-> agentId]

\* the PATCH request of updateNotionWithResults (lines 2023-2028)
UpdateRequest(notionPageId, demoUrl, agentId) ==
    [op |-> "update", pageId |-> notionPageId, demoUrl |-> Some(demoUrl), agentId |-> agentId]

\* the request was sent to the store for the current lead; `answer` is the id of
\* the page it answered with, 0 for a failed create and for an update, whose
\* answer is not read
StoreCalled(r, request, answer) ==
    [r EXCEPT !.storeCalls = Append(@, [lead |-> r.i, request |-> request, answer |-> answer])]

\* the create request for the repository was answered (line 1371): unless it
\* failed, the repository exists on the host from then on
HostCreated(r, practiceData, outcome) ==
    IF outcome = "createFailed" THEN r
    ELSE [r EXCEPT !.hostRepositories =
              Append(@, [lead |-> r.i,
                         html_url |-> CreatePersonalizedRepository(practiceData, "ok").value.html_url])]

\* outcomes of the request that writes the demo url and agent id to the page
UpdateOutcomes == {"ok", "failed"}

\* updateNotionWithResults without its catch block
UpdateNotionWithResultsRaising(outcome) ==
    IF outcome = "ok" THEN [raised |-> FALSE, message |-> ""]
    ELSE [raised |-> TRUE, message |-> "Request failed"]

\* updateNotionWithResults: a failure is logged and swallowed
UpdateNotionWithResults(outcome) == [raised |-> FALSE, message |-> ""]

\* the object processHealthcareWebsite returns from its try block (leadId,
\* duration and timestamp left out)
SuccessResult(websiteUrl, scrapedData, deployment, agentId, notionPage, repository) ==
    [url |-> websiteUrl, status |-> "success", company |-> scrapedData.company,
     doctor |-> scrapedData.contactName, demoUrl |-> deployment.url, agentId |-> agentId,
     notionId |-> notionPage.id, repositoryUrl |-> repository.html_url]

\* a catch block that reports the error under another status
FailedResultAsError(websiteUrl, message) ==
    [url |-> websiteUrl, status |-> "error", error |-> message]

\* the object processHealthcareWebsite returns from its catch block
FailedResult(websiteUrl, message) ==
    [url |-> websiteUrl, status |-> "failed", error |-> message]

----------------------------------------------------------------------------
(* Pipeline sequencer: executeAutonomousWorkflow, POST /process-urls and
   processHealthcareWebsite *)

\* the longest candidate list discovery answers a batch with, and the longest url
\* list of a request
MaxLeads == 2

\* outcomes of the batch's search request
BatchResponses ==
    {[status |-> "failed", results |-> None], [status |-> "ok", results |-> None]}
    \cup {[status |-> "ok", results |-> Some(q)] : q \in SeqsUpTo(SearchPool, MaxLeads)}

\* the `urls` of the body of a POST /process-urls request: absent, or an array
UrlLists == {None} \cup {Some(q) : q \in SeqsUpTo(Urls, MaxLeads)}

\* the locals of processHealthcareWebsite before its first await, and the calls
\* the current lead has made
NoLead ==
    [scrapedData |-> NoData, notionPage |-> [id |-> 0], agentId |-> <<>>,
     repository |-> NoRepository, deployment |-> NoDeployment, railway |-> NoRailway,
     calls |-> <<>>]

\* the url of the candidate of the current loop iteration
CurrentUrl == run.healthcarePractices[run.i].url

\* the statements of the try block of processHealthcareWebsite, in order
PhaseOrder ==
    <<"Extracting", "Storing", "Provisioning", "Materializing", "Deploying", "Finalizing">>

\* a try block that deploys before the repository is materialized
NextPhaseDeployFirst(phase) ==
    CASE phase = "Extracting" -> "Storing"
      [] phase = "Storing" -> "Provisioning"
      [] phase = "Provisioning" -> "Deploying"
      [] phase = "Deploying" -> "Materializing"
      [] OTHER -> "Finalizing"

\* the statement after a phase of the try block
NextPhase(phase) ==
    PhaseOrder[(CHOOSE k \in 1..(Len(PhaseOrder) - 1) : PhaseOrder[k] = phase) + 1]

\* the lead calls a method of the agent, which returns or raises with `outcome`
Called(r, op, outcome) ==
    [r EXCEPT !.lead.calls = Append(@, [op |-> op, outcome |-> outcome])]

\* a loop that stops at the first failed lead
RecordResultStopOnFailure(r, result) ==
    [r EXCEPT !.results = Append(r.results, result),
              !.lead = [NoLead EXCEPT !.calls = r.lead.calls],
              !.pc = IF result.status # "success" THEN "returned"
                     ELSE IF r.i >= Len(r.healthcarePractices) THEN "returned"
                     ELSE IF r.kind = "count" THEN "sleeping"
                     ELSE "next"]

\* a loop that does not push the result of a failed lead
RecordResultDropFailed(r, result) ==
    [r EXCEPT !.results = IF result.status = "success"
                          THEN Append(r.results, result) ELSE r.results,
              !.lead = [NoLead EXCEPT !.calls = r.lead.calls],
              !.pc = IF r.i >= Len(r.healthcarePractices) THEN "returned"
                     ELSE IF r.kind = "count" THEN "sleeping"
                     ELSE "next"]

\* a loop that processes a failed lead again instead of recording it
RecordResultRetry(r, result) ==
    IF result.status # "success"
    THEN [r EXCEPT !.lead = NoLead, !.pc = "Extracting"]
    ELSE [r EXCEPT !.results = Append(r.results, result),
                   !.lead = [NoLead EXCEPT !.calls = r.lead.calls],
                   !.pc = IF r.i >= Len(r.healthcarePractices) THEN "returned"
                          ELSE IF r.kind = "count" THEN "sleeping"
                          ELSE "next"]

\* the rest of a loop iteration once processHealthcareWebsite has returned:
\* results.push(result), then the return after the last lead, or the pause of
\* executeAutonomousWorkflow, or the next iteration of POST /process-urls
RecordResult(r, result) ==
    [r EXCEPT !.results = Append(r.results, result),
              !.lead = [NoLead EXCEPT !.calls = r.lead.calls],
              !.pc = IF r.i >= Len(r.healthcarePractices) THEN "returned"
                     ELSE IF r.kind = "count" THEN "sleeping"
                     ELSE "next"]

\* POST /create-leads {count}: executeAutonomousWorkflow up to its search request
ExecuteAutonomousWorkflow ==
    /\ run.pc = "start"
    /\ \E count \in 1..MaxCount :
          run' = [run EXCEPT !.pc = "discovering", !.kind = "count", !.leadCount = count]
    /\ UNCHANGED <<userContexts, ctxHeap, turns, clock, chatBudget, runsStarted, disc, ext, call>>

\* a run that never finds its candidate list empty
NoCandidatesFoundNever(healthcarePractices) == FALSE

\* !healthcarePractices || healthcarePractices.length === 0
NoCandidatesFound(healthcarePractices) == Len(healthcarePractices) = 0

\* the entry into the loop over the candidates, which returns `results` at once
\* when there is no candidate
EnterLoop(r, healthcarePractices, first) ==
    IF Len(healthcarePractices) = 0
    THEN [r EXCEPT !.pc = "returned", !.healthcarePractices = healthcarePractices]
    ELSE [r EXCEPT !.pc = first, !.healthcarePractices = healthcarePractices, !.i = 1]

\* the search request returns: the rest of findHealthcarePracticesWithEXA, the
\* check for an empty list, and the entry into the loop
BatchDiscovered ==
    /\ run.pc = "discovering" /\ run.kind = "count"
    /\ \E response \in BatchResponses :
          LET found == FindHealthcarePracticesWithEXA(run.leadCount, response)
              searched == [run EXCEPT !.response = Some(response)]
          IN  IF found.raised
              THEN run' = [searched EXCEPT !.pc = "raised", !.error = found.message]
              ELSE IF NoCandidatesFound(found.value)
              THEN run' = [searched EXCEPT !.pc = "raised",
                              !.error = "No healthcare practices found with EXA search"]
              ELSE run' = EnterLoop(searched, found.value, "Extracting")
    /\ UNCHANGED <<userContexts, ctxHeap, turns, clock, chatBudget, runsStarted, disc, ext, call>>

\* POST /process-urls {urls}: the check of the body and the entry into the loop
ProcessUrls ==
    /\ run.pc = "start"
    /\ \E urls \in UrlLists :
          IF urls = None
          THEN run' = [run EXCEPT !.pc = "rejected", !.kind = "urls",
                          !.error = "URLs array required"]
          ELSE IF urls[1] = <<>>
          THEN run' = [run EXCEPT !.pc = "returned", !.kind = "urls"]
          ELSE run' = [run EXCEPT !.pc = "Extracting", !.kind = "urls", !.i = 1,
                          !.healthcarePractices = [k \in DOMAIN urls[1] |-> [url |-> urls[1][k]]]]
    /\ UNCHANGED <<userContexts, ctxHeap, turns, clock, chatBudget, runsStarted, disc, ext, call>>

\* PHASE 0: scrapeHealthcareWebsite returns or raises
LeadExtract ==
    /\ run.pc = "Extracting"
    /\ \E fetched \in FetchOutcomes, servicesOutcome \in ServiceOutcomes,
          locationOutcome \in LocationOutcomes :
          LET scraped == ScrapeHealthcareWebsite(CurrentUrl, fetched, servicesOutcome,
                                                 locationOutcome)
          IN  IF scraped.raised
              THEN run' = RecordResult(Called(run, "scrapeHealthcareWebsite", "raised"),
                                       FailedResult(CurrentUrl, scraped.message))
              ELSE run' = [Called(run, "scrapeHealthcareWebsite", "ok")
                              EXCEPT !.pc = NextPhase("Extracting"),
                                     !.lead.scrapedData = scraped.value]
    /\ UNCHANGED <<userContexts, ctxHeap, turns, clock, chatBudget, runsStarted, disc, ext, call>>

\* PHASE 1: storeLeadInNotion returns or raises
LeadStore ==
    /\ run.pc = "Storing"
    /\ \E outcome \in StoreOutcomes :
          LET stored == StoreLeadInNotion(outcome, run.pages + 1)
          IN  IF stored.raised
              THEN run' = RecordResult(StoreCalled(Called(run, "storeLeadInNotion", outcome),
                                                   CreateRequest, 0),
                                       FailedResult(CurrentUrl, stored.message))
              ELSE run' = [StoreCalled(Called(run, "storeLeadInNotion", outcome),
                                       CreateRequest, stored.value.id)
                              EXCEPT !.pc = NextPhase("Storing"), !.pages = run.pages + 1,
                                     !.lead.notionPage = stored.value]
    /\ UNCHANGED <<userContexts, ctxHeap, turns, clock, chatBudget, runsStarted, disc, ext, call>>

\* PHASE 2: createElevenLabsAgent returns
LeadProvision ==
    /\ run.pc = "Provisioning"
    /\ run' = [Called(run, "createElevenLabsAgent", "ok")
                  EXCEPT !.pc = NextPhase("Provisioning"),
                         !.lead.agentId = CreateElevenLabsAgent(run.lead.scrapedData)]
    /\ UNCHANGED <<userContexts, ctxHeap, turns, clock, chatBudget, runsStarted, disc, ext, call>>

\* PHASE 3: createPersonalizedRepository returns or raises
LeadMaterialize ==
    /\ run.pc = "Materializing"
    /\ \E outcome \in RepositoryOutcomes :
          LET created == CreatePersonalizedRepository(run.lead.scrapedData, outcome)
          IN  IF created.raised
              THEN run' = RecordResult(HostCreated(Called(run, "createPersonalizedRepository",
                                                          outcome),
                                                   run.lead.scrapedData, outcome),
                                       FailedResult(CurrentUrl, created.message))
              ELSE run' = [HostCreated(Called(run, "createPersonalizedRepository", outcome),
                                       run.lead.scrapedData, outcome)
                              EXCEPT !.pc = NextPhase("Materializing"),
                                     !.lead.repository = created.value]
    /\ UNCHANGED <<userContexts, ctxHeap, turns, clock, chatBudget, runsStarted, disc, ext, call>>

\* PHASE 4: deployToRailway returns (or raises, into the catch block of
\* processHealthcareWebsite)
LeadDeploy ==
    /\ run.pc = "Deploying"
    /\ \E railway \in RailwayOutcomes :
          LET deployed == DeployToRailway(run.lead.scrapedData, run.lead.repository, railway)
          IN  IF deployed.raised
              THEN run' = RecordResult(Called(run, "deployToRailway", "raised"),
                                       FailedResult(CurrentUrl, deployed.message))
              ELSE run' = [Called(run, "deployToRailway", deployed.value.status)
                              EXCEPT !.pc = NextPhase("Deploying"),
                                     !.lead.railway = railway,
                                     !.lead.deployment = deployed.value]
    /\ UNCHANGED <<userContexts, ctxHeap, turns, clock, chatBudget, runsStarted, disc, ext, call>>

\* PHASE 5: updateNotionWithResults returns, processHealthcareWebsite returns its
\* success object, and the loop records it
LeadFinalize ==
    /\ run.pc = "Finalizing"
    /\ \E outcome \in UpdateOutcomes :
          LET updated == UpdateNotionWithResults(outcome)
              called == StoreCalled(Called(run, "updateNotionWithResults", outcome),
                                    UpdateRequest(run.lead.notionPage.id,
                                                  run.lead.deployment.url, run.lead.agentId),
                                    0)
          IN  IF updated.raised
              THEN run' = RecordResult(called, FailedResult(CurrentUrl, updated.message))
              ELSE run' = RecordResult(called,
                              SuccessResult(CurrentUrl, run.lead.scrapedData,
                                            run.lead.deployment, run.lead.agentId,
                                            run.lead.notionPage, run.lead.repository))
    /\ UNCHANGED <<userContexts, ctxHeap, turns, clock, chatBudget, runsStarted, disc, ext, call>>

\* await this.sleep(3000) is over: the next iteration of executeAutonomousWorkflow
BatchSleep ==
    /\ run.pc = "sleeping"
    /\ run' = [run EXCEPT !.pc = "Extracting", !.i = run.i + 1, !.sleeps = run.sleeps + 1,
                          !.lead = NoLead]
    /\ UNCHANGED <<userContexts, ctxHeap, turns, clock, chatBudget, runsStarted, disc, ext, call>>

\* the next iteration of the loop of POST /process-urls
UrlsNext ==
    /\ run.pc = "next"
    /\ run' = [run EXCEPT !.pc = "Extracting", !.i = run.i + 1, !.lead = NoLead]
    /\ UNCHANGED <<userContexts, ctxHeap, turns, clock, chatBudget, runsStarted, disc, ext, call>>

\* workflowConfig objects a run is started with; leadCount 0 stands for an absent
\* leadCount
RunConfigs ==
    [leadCount : {0, 1, 2},
     location : {None, Some(<<"b", "e", "r", "l", "i", "n">>)},
     specialty : {None, Some(<<"f", "i", "l", "l", "e", "r">>)},
     filters : {None, Some(<<>>), Some(<<<<"e", "x", "c", "l", "u", "d", "e", " ", "b", "o", "t", "o", "x">>>>)}]

\* workflowConfig.leadCount || 3
LeadCountOrDefault(workflowConfig) ==
    IF workflowConfig.leadCount = 0 THEN 3 ELSE workflowConfig.leadCount

\* executeCustomAutonomousWorkflow(workflowConfig) up to its search request
ExecuteCustomAutonomousWorkflow ==
    /\ run.pc = "start"
    /\ \E workflowConfig \in RunConfigs :
          run' = [run EXCEPT !.pc = "discovering", !.kind = "workflow",
                             !.leadCount = LeadCountOrDefault(workflowConfig),
                             !.workflowConfig = Some(workflowConfig)]
    /\ UNCHANGED <<userContexts, ctxHeap, turns, clock, chatBudget, runsStarted, disc, ext, call>>

\* the search request returns: the rest of findHealthcarePracticesWithCustomEXA,
\* the check for an empty list, and the entry into the loop
WorkflowDiscovered ==
    /\ run.pc = "discovering" /\ run.kind = "workflow"
    /\ \E response \in BatchResponses :
          LET found == FindHealthcarePracticesWithCustomEXA(run.leadCount,
                                                           run.workflowConfig[1], response)
              searched == [run EXCEPT !.response = Some(response)]
          IN  IF found.raised
              THEN run' = [searched EXCEPT !.pc = "raised", !.error = found.message]
              ELSE IF NoCandidatesFound(found.value)
              THEN run' = [searched EXCEPT !.pc = "raised",
                              !.error = "No healthcare practices found with custom search"]
              ELSE run' = EnterLoop(searched, found.value, "practice")
    /\ UNCHANGED <<userContexts, ctxHeap, turns, clock, chatBudget, runsStarted, disc, ext, call>>

\* a rejected candidate pushed in the shape of the catch block (lines 763-767)
FilteredOutAsError(practice) ==
    [practice |-> practice.title, success |-> FALSE,
     error |-> "Filtered out by custom criteria"]

\* results.push({practice, success: false, reason})
FilteredOut(practice) ==
    [practice |-> practice.title, success |-> FALSE,
     reason |-> "Filtered out by custom criteria"]

\* processSinglePractice(practice, workflowConfig)
ProcessSinglePractice(practice, workflowConfig) ==
    [practice |-> practice.title, url |-> practice.url, success |-> TRUE,
     customConfig |-> workflowConfig # None]

\* one iteration of the loop of executeCustomAutonomousWorkflow: the custom filters,
\* processSinglePractice, results.push, and the next iteration or the return
WorkflowPractice ==
    /\ run.pc = "practice"
    /\ LET practice == run.healthcarePractices[run.i]
           filters == run.workflowConfig[1].filters
           result == IF filters # None /\ ~PassesCustomFilters(practice, filters[1])
                     THEN FilteredOut(practice)
                     ELSE ProcessSinglePractice(practice, run.workflowConfig)
       IN  run' = [run EXCEPT !.results = Append(@, result),
                              !.i = IF run.i >= Len(run.healthcarePractices)
                                    THEN run.i ELSE run.i + 1,
                              !.pc = IF run.i >= Len(run.healthcarePractices)
                                     THEN "returned" ELSE "practice"]
    /\ UNCHANGED <<userContexts, ctxHeap, turns, clock, chatBudget, runsStarted, disc, ext, call>>

----------------------------------------------------------------------------
(* Startup: the constructor and start() *)

\* the environment variables the constructor reads with
\* `process.env.X || this.throwMissingEnvError('X')`, in the order it reads them
RequiredEnv ==
    <<"GITHUB_TOKEN", "RAILWAY_TOKEN", "NOTION_API_KEY", "NOTION_DATABASE_ID",
      "ELEVENLABS_API_KEY", "OPENROUTER_API_KEY", "ELEVENLABS_AGENT_ID",
      "TELEGRAM_BOT_TOKEN", "EXA_API_KEY">>

\* the values of a variable of the environment: not set, set to the empty string,
\* set to a value
EnvValues == {None, Some(""), Some("value")}

\* process.env.X is falsy
Missing(env, name) == env[name] = None \/ env[name] = Some("")

\* a constructor that reads only the variables of this.config
ConstructorConfigOnly(env) ==
    IF \E k \in 1..(Len(RequiredEnv) - 1) : Missing(env, RequiredEnv[k])
    THEN LET first == CHOOSE k \in 1..(Len(RequiredEnv) - 1) :
                         /\ Missing(env, RequiredEnv[k])
                         /\ \A j \in 1..(k - 1) : ~Missing(env, RequiredEnv[j])
         IN  [raised |-> TRUE, message |-> RequiredEnv[first]]
    ELSE [raised |-> FALSE, message |-> ""]

\* the constructor: it raises for the first variable that is missing, and
\* otherwise returns the agent
Constructor(env) ==
    IF \E k \in DOMAIN RequiredEnv : Missing(env, RequiredEnv[k])
    THEN LET first == CHOOSE k \in DOMAIN RequiredEnv :
                         /\ Missing(env, RequiredEnv[k])
                         /\ \A j \in 1..(k - 1) : ~Missing(env, RequiredEnv[j])
         IN  [raised |-> TRUE, message |-> RequiredEnv[first]]
    ELSE [raised |-> FALSE, message |-> ""]

\* const agent = new AutonomousHealthcareAgent(): the routes are set up, then the
\* configuration is read; an error of the constructor ends the process
NewAgent ==
    /\ call.pc = "call" /\ call.fn = "constructor"
    /\ LET agent == Constructor(call.env)
       IN  IF agent.raised
           THEN call' = [call EXCEPT !.pc = "exited", !.routes = TRUE,
                                     !.error = agent.message]
           ELSE call' = [call EXCEPT !.pc = "constructed", !.routes = TRUE]
    /\ UNCHANGED <<userContexts, ctxHeap, turns, clock, chatBudget, runsStarted, disc, ext, run>>

\* agent.start(): this.app.listen(this.port)
Start ==
    /\ call.pc = "constructed"
    /\ call' = [call EXCEPT !.pc = "listening"]
    /\ UNCHANGED <<userContexts, ctxHeap, turns, clock, chatBudget, runsStarted, disc, ext, run>>

\* a request arrives on a trigger endpoint or on the webhook and its handler is
\* invoked, which needs the routes and a listening server
HandleRequest ==
    /\ call.pc = "listening" /\ call.routes
    /\ \E path \in {"/create-leads", "/process-urls", "/conversation", "/webhook/telegram"} :
          call' = [call EXCEPT !.handled = @ \cup {path}]
    /\ UNCHANGED <<userContexts, ctxHeap, turns, clock, chatBudget, runsStarted, disc, ext, run>>

----------------------------------------------------------------------------
(* Webhook: the dispatch of an update of the chat channel *)

\* update.message.text values: commands, with and without argument, and free text
UpdateTexts ==
    {<<"/", "s", "t", "a", "r", "t">>,
     <<"/", "s", "t", "a", "r", "t", "e", "d">>,
     <<"/", "w", "o", "r", "k", "f", "l", "o", "w", " ", "0">>,
     <<"/", "w", "o", "r", "k", "f", "l", "o", "w", " ", "1">>,
     <<"/", "w", "o", "r", "k", "f", "l", "o", "w", " ", "3">>,
     <<"/", "w", "o", "r", "k", "f", "l", "o", "w", " ", "1", "0">>,
     <<"/", "w", "o", "r", "k", "f", "l", "o", "w", " ", "1", "1">>,
     <<"/", "w", "o", "r", "k", "f", "l", "o", "w">>,
     <<"/", "s", "t", "a", "t", "u", "s">>,
     <<"/", "h", "e", "a", "l", "t", "h">>,
     <<"/", "h", "e", "l", "p">>,
     <<"/", "u", "n", "k", "n", "o", "w", "n">>,
     <<"h", "e", "l", "l", "o">>,
     <<"s", "a", "y", " ", "/", "s", "t", "a", "r", "t">>,
     <<"/", "w", "o", "r", "k", "f", "l", "o", "w", " ", "f", "i", "v", "e">>,
     <<"f", "i", "n", "d", " ", "3", " ", "b", "o", "t", "o", "x", " ", "c", "l", "i", "n", "i", "c", "s">>,
     <<>>}

\* the updates the webhook receives: without message, with a message without
\* text, or with a text
Updates ==
    [message : {FALSE}, chatId : {0}, text : {None}]
    \cup [message : {TRUE}, chatId : Channels \cup {3}, text : {None}]
    \cup [message : {TRUE}, chatId : Channels \cup {3}, text : {Some(x) : x \in UpdateTexts}]

\* what a handler does before its first await: the messages it sends with
\* bot.sendMessage and the runs it starts
Handled(handler, sent, started) == [handler |-> handler, sent |-> sent, started |-> started]

\* handleWorkflowCommand(chatId, leadCount)
HandleWorkflowCommand(leadCount) ==
    IF leadCount < 1 \/ leadCount > 10
    THEN Handled("handleWorkflowCommand", <<"Invalid lead count">>, <<>>)
    ELSE Handled("handleWorkflowCommand", <<"Starting Healthcare Lead Generation">>,
                 <<leadCount>>)

\* the body of the handler of POST /webhook/telegram: the handler it calls for the
\* update, if any
WebhookTelegram(update) ==
    IF update.message /\ update.text # None /\ update.text[1] # <<>>
    THEN IF StartsWith(update.text[1], <<"/", "s", "t", "a", "r", "t">>)
         THEN Handled("handleStartCommand", <<"Welcome">>, <<>>)
         ELSE IF ~StartsWith(update.text[1], <<"/">>)
         THEN Handled("handleConversationalMessage", <<"AI is processing">>, <<>>)
         ELSE Handled("none", <<>>, <<>>)
    ELSE Handled("none", <<>>, <<>>)

\* POST /webhook/telegram is requested and answers 200 'OK'
PostWebhookTelegram ==
    /\ call.pc = "call" /\ call.fn = "webhook"
    /\ call' = [call EXCEPT !.pc = "done", !.status = 200,
                            !.handled = WebhookTelegram(call.update)]
    /\ UNCHANGED <<userContexts, ctxHeap, turns, clock, chatBudget, runsStarted, disc, ext, run>>

----------------------------------------------------------------------------
(* Run notices: executeCustomWorkflowWithUpdates inside a chat turn, await by await *)

\* what executeCustomAutonomousWorkflow ends with: an error, or one result per
\* candidate (it never returns an empty list), of which some are successes
RunEndings ==
    {[raised |-> TRUE, results |-> 0, successCount |-> 0]}
    \cup {e \in [raised : {FALSE}, results : 1..MaxLeads, successCount : 0..MaxLeads] :
             e.successCount <= e.results}

\* bot.sendMessage was called with a message of this kind and resolved or rejected
Notice(c, kind, sent) == [c EXCEPT !.notices = Append(@, [kind |-> kind, sent |-> sent])]

\* where the turn continues after an awaited bot.sendMessage: after the next
\* statement when it resolved, in the enclosing catch block when it rejected
AfterSend(pc, sent) ==
    CASE pc = "call" -> IF sent THEN "running" ELSE "catch"
      [] pc = "completing" -> IF sent THEN "done" ELSE "catch"
      [] pc = "catch" -> IF sent THEN "done" ELSE "apology"
      [] pc = "apology" -> IF sent THEN "done" ELSE "serious"
      [] OTHER -> "done"

\* the 'Starting Custom Healthcare Lead Generation' message (line 657)
SendStartingNotice ==
    /\ call.fn = "executeCustomWorkflowWithUpdates" /\ call.pc = "call"
    /\ \E sent \in BOOLEAN :
          call' = [Notice(call, "started", sent) EXCEPT !.pc = AfterSend("call", sent)]
    /\ UNCHANGED <<userContexts, ctxHeap, turns, clock, chatBudget, runsStarted, disc, ext, run>>

\* executeCustomAutonomousWorkflow is called and makes its search request (lines
\* 668, 733)
RunDiscovers ==
    /\ call.fn = "executeCustomWorkflowWithUpdates" /\ call.pc = "running"
    /\ call' = [call EXCEPT !.pc = "searching", !.discoveryAfter = Len(call.notices)]
    /\ UNCHANGED <<userContexts, ctxHeap, turns, clock, chatBudget, runsStarted, disc, ext, run>>

\* executeCustomAutonomousWorkflow returns its results or raises
RunEnds ==
    /\ call.fn = "executeCustomWorkflowWithUpdates" /\ call.pc = "searching"
    /\ \E ending \in RunEndings :
          call' = [call EXCEPT !.pc = IF ending.raised THEN "catch" ELSE "completing",
                               !.ending = Some(ending)]
    /\ UNCHANGED <<userContexts, ctxHeap, turns, clock, chatBudget, runsStarted, disc, ext, run>>

\* the 'Custom Workflow Complete' message, or the 'no leads were generated'
\* message for an empty result list (lines 670-685)
SendCompletionNotice ==
    /\ call.fn = "executeCustomWorkflowWithUpdates" /\ call.pc = "completing"
    /\ \E sent \in BOOLEAN :
          call' = [Notice(call, IF call.ending[1].results > 0 THEN "complete" ELSE "noLeads",
                          sent)
                      EXCEPT !.pc = AfterSend("completing", sent)]
    /\ UNCHANGED <<userContexts, ctxHeap, turns, clock, chatBudget, runsStarted, disc, ext, run>>

\* the catch block of executeCustomWorkflowWithUpdates: the 'Custom workflow
\* failed' message (lines 686-689)
SendFailureNotice ==
    /\ call.fn = "executeCustomWorkflowWithUpdates" /\ call.pc = "catch"
    /\ \E sent \in BOOLEAN :
          call' = [Notice(call, "failed", sent) EXCEPT !.pc = AfterSend("catch", sent)]
    /\ UNCHANGED <<userContexts, ctxHeap, turns, clock, chatBudget, runsStarted, disc, ext, run>>

\* the catch block of handleConversationalMessage: the 'Sorry, I had trouble
\* processing your request' message (lines 531-534)
SendApology ==
    /\ call.fn = "executeCustomWorkflowWithUpdates" /\ call.pc = "apology"
    /\ \E sent \in BOOLEAN :
          call' = [Notice(call, "apology", sent) EXCEPT !.pc = AfterSend("apology", sent)]
    /\ UNCHANGED <<userContexts, ctxHeap, turns, clock, chatBudget, runsStarted, disc, ext, run>>

\* the outer catch block of handleConversationalMessage: the 'A serious error
\* occurred' message, whose own failure is only logged (lines 536-543)
SendSeriousError ==
    /\ call.fn = "executeCustomWorkflowWithUpdates" /\ call.pc = "serious"
    /\ \E sent \in BOOLEAN :
          call' = [Notice(call, "serious", sent) EXCEPT !.pc = AfterSend("serious", sent)]
    /\ UNCHANGED <<userContexts, ctxHeap, turns, clock, chatBudget, runsStarted, disc, ext, run>>

----------------------------------------------------------------------------
(* Deployment requests: deployToRailway, request by request *)

\* the practices a deployment is made for
DeployPractices == {[practiceId |-> <<"d", "e", "m", "o">>], [practiceId |-> <<"s", "p", "a">>]}

\* one request of a deployment: its operation, the tier that made it, the
\* identifiers it carried and whether it failed
Request(op, tier, projectId, environmentId, serviceId, raised) ==
    [op |-> op, tier |-> tier, projectId |-> projectId, environmentId |-> environmentId,
     serviceId |-> serviceId, raised |-> raised]

\* the try block of deployToRailway that goes on after a rejected request
AfterRequestUncaught(pc, raised) ==
    CASE pc = "call" -> "environments"
      [] pc = "environments" -> "service"
      [] pc = "service" -> "variables"
      [] pc = "variables" -> "domain"
      [] OTHER -> "done"

\* where deployToRailway continues after an awaited request: at the next
\* statement, or in its catch block when the request raised
AfterRequest(pc, raised) ==
    IF raised THEN "catch"
    ELSE CASE pc = "call" -> "environments"
           [] pc = "environments" -> "service"
           [] pc = "service" -> "variables"
           [] pc = "variables" -> "domain"
           [] OTHER -> "done"

\* railwaySetVariables without its second tier
VariableRequestsCliOnly(cli, outcome, projectId, environmentId, serviceId) ==
    <<Request("variables set", "cli", "", "", serviceId, cli.raised)>>

\* the requests of railwaySetVariables for its three variables: the command line
\* tool per variable until it raises, then one variableUpsert mutation per variable
\* until one fails
VariableRequests(cli, outcome, projectId, environmentId, serviceId) ==
    LET set == Request("variables set", "cli", "", "", serviceId, cli.raised)
        upsert(raised) == Request("variableUpsert", "graphql", projectId, environmentId,
                                  serviceId, raised)
    IN  IF ~cli.raised THEN <<set, set, set>>
        ELSE IF outcome = "ok" THEN <<set, upsert(FALSE), upsert(FALSE), upsert(FALSE)>>
        ELSE <<set, upsert(TRUE)>>

\* the requests of railwayCreateDomain: the command line tool, and the domainCreate
\* mutation when it raised
DomainRequests(cli, outcome, projectId, environmentId, serviceId) ==
    <<Request("domain generate", "cli", "", "", serviceId, cli.raised)>>
    \o (IF cli.raised
        THEN <<Request("domainCreate", "graphql", projectId, environmentId, serviceId,
                       outcome.status # "ok")>>
        ELSE <<>>)

\* the request was made during the deployment
Requested(c, requests) == [c EXCEPT !.requests = @ \o requests]

\* railwayCreateProject (line 1479)
DeployCreateProject ==
    /\ call.fn = "deployToRailway" /\ call.pc = "call"
    /\ LET project == RailwayCreateProject(call.railway.project)
       IN  call' = [Requested(call, <<Request("projectCreate", "graphql", "", "", "",
                                              project.raised)>>)
                       EXCEPT !.pc = AfterRequest("call", project.raised),
                              !.projectId = project.value.id]
    /\ UNCHANGED <<userContexts, ctxHeap, turns, clock, chatBudget, runsStarted, disc, ext, run>>

\* railwayGetEnvironments and the choice of prodEnv (lines 1483-1484)
DeployGetEnvironments ==
    /\ call.fn = "deployToRailway" /\ call.pc = "environments"
    /\ LET environments == RailwayGetEnvironments(call.railway.environments)
       IN  call' = [Requested(call, <<Request("environments", "graphql", call.projectId, "",
                                              "", environments.raised)>>)
                       EXCEPT !.pc = AfterRequest("environments", environments.raised),
                              !.prodEnv = ProdEnv(environments.value)]
    /\ UNCHANGED <<userContexts, ctxHeap, turns, clock, chatBudget, runsStarted, disc, ext, run>>

\* railwayCreateService, then the log line that reads prodEnv.id, which throws
\* for an undefined prodEnv (lines 1487-1490)
DeployCreateService ==
    /\ call.fn = "deployToRailway" /\ call.pc = "service"
    /\ LET service == RailwayCreateService(call.railway.service)
       IN  call' = [Requested(call, <<Request("serviceCreate", "graphql", call.projectId, "",
                                              "", service.raised)>>)
                       EXCEPT !.pc = AfterRequest("service",
                                                  service.raised \/ call.prodEnv = None),
                              !.serviceId = service.value.id]
    /\ UNCHANGED <<userContexts, ctxHeap, turns, clock, chatBudget, runsStarted, disc, ext, run>>

\* prodEnv.id, the empty string standing for the id of an undefined prodEnv
ProdEnvId(c) == IF c.prodEnv = None THEN "" ELSE c.prodEnv[1].id

\* railwaySetVariables inside its own try block (lines 1492-1496)
DeploySetVariables ==
    /\ call.fn = "deployToRailway" /\ call.pc = "variables"
    /\ call' = [Requested(call, VariableRequests(RailwayCli, call.railway.variables,
                                                 call.projectId, ProdEnvId(call),
                                                 call.serviceId))
                   EXCEPT !.pc = AfterRequest("variables",
                                     RailwaySetVariables(RailwayCli,
                                                         call.railway.variables).raised)]
    /\ UNCHANGED <<userContexts, ctxHeap, turns, clock, chatBudget, runsStarted, disc, ext, run>>

\* the command line tool closing with code 0 and a url in its output (lines
\* 1818-1826), which the executor never gets to
CliSucceeds ==
    [raised |-> FALSE, message |-> "",
     domain |-> <<"c", "l", "i", ".", "u", "p", ".", "r", "a", "i", "l", "w", "a", "y", ".", "a", "p", "p">>]

\* the object deployToRailway returns for the domain railwayCreateDomain returned
\* (lines 1501-1505)
Deployed(domain) ==
    [url |-> domain.url, status |-> "deployed", deploymentMethod |-> "railway-mcp-direct"]

\* railwayCreateDomain and the return of the deployed url (lines 1499-1505)
DeployCreateDomain ==
    /\ call.fn = "deployToRailway" /\ call.pc = "domain"
    /\ LET domain == RailwayCreateDomain(RailwayCli, call.railway.domain)
       IN  call' = [Requested(call, DomainRequests(RailwayCli, call.railway.domain,
                                                   call.projectId, ProdEnvId(call),
                                                   call.serviceId))
                       EXCEPT !.pc = AfterRequest("domain", domain.raised),
                              !.result = IF domain.raised THEN @
                                         ELSE Deployed(domain.value)]
    /\ UNCHANGED <<userContexts, ctxHeap, turns, clock, chatBudget, runsStarted, disc, ext, run>>

\* the catch block of deployToRailway: the static fallback (lines 1507-1517)
DeployFallback ==
    /\ call.fn = "deployToRailway" /\ call.pc = "catch"
    /\ call' = [call EXCEPT !.pc = "done",
                            !.result = [url |-> FallbackUrl(call.repository),
                                        status |-> "fallback",
                                        deploymentMethod |-> "github-pages"]]
    /\ UNCHANGED <<userContexts, ctxHeap, turns, clock, chatBudget, runsStarted, disc, ext, run>>

----------------------------------------------------------------------------
(* Completion summaries: executeWorkflowWithUpdates and
   executeCustomWorkflowWithUpdates once the run has returned its results *)

\* results executeAutonomousWorkflow can return: the objects of
\* processHealthcareWebsite
LeadResults ==
    {SuccessResult(url, NoData, NoDeployment, <<>>, [id |-> 1], NoRepository) :
        url \in {u \in Urls : Hostname(u) # None}}
    \cup {FailedResult(url, "Notion storage failed: Request failed") :
             url \in {u \in Urls : Hostname(u) # None}}

\* results executeCustomAutonomousWorkflow can return: the objects of
\* processSinglePractice and the filtered-out entries
PracticeResults ==
    {ProcessSinglePractice(practice, None) : practice \in {p \in SearchPool : p.id <= 2}}
    \cup {FilteredOut(practice) : practice \in {p \in SearchPool : p.id <= 2}}

\* r.success as a condition: undefined (falsy) for an object without the property
HasSuccess(r) == "success" \in DOMAIN r /\ r.success

\* results.filter(r => r.success).length (lines 671, 700)
SuccessCount(results) == Cardinality({k \in DOMAIN results : HasSuccess(results[k])})

\* the 'Workflow Complete' message with its `${successCount}/${results.length}`
\* line is sent (lines 699-710 and 670-683)
SendSummary ==
    /\ call.pc = "call" /\ call.fn \in {"executeWorkflowWithUpdates",
                                          "executeCustomWorkflowWithUpdates"}
    /\ call.results # <<>>
    /\ call' = [call EXCEPT !.pc = "done",
                            !.summary = [successCount |-> SuccessCount(call.results),
                                         total |-> Len(call.results)]]
    /\ UNCHANGED <<userContexts, ctxHeap, turns, clock, chatBudget, runsStarted, disc, ext, run>>

----------------------------------------------------------------------------
(* Specifications of the chat session manager *)

\* the components not taking part in a specification
Idle == [pc |-> "idle"]

ChatStart == \E chatId \in Channels : HandleStartCommand(chatId)

ChatMessage ==
    \E chatId \in Channels, messageText \in Messages :
        HandleConversationalMessage(chatId, messageText)

ChatProcessing == \E t \in turns, sent \in BOOLEAN : SendProcessing(t, sent)

ChatCompletion ==
    \E t \in turns, transportOk \in BOOLEAN, aiContent \in chatBudget.completions :
        ReceiveCompletion(t, transportOk, aiContent)

ChatReply == \E t \in turns, sent \in BOOLEAN : SendReply(t, sent)

ChatWorkflow ==
    \E t \in turns, sent \in BOOLEAN : ExecuteCustomWorkflowWithUpdates(t, sent)

ChatFinish == \E t \in turns : FinishTurn(t)

WebMessage == \E message \in {None} \cup {Some(m) : m \in Messages} : PostConversation(message)

WebCompletion ==
    \E t \in turns, transportOk \in BOOLEAN, aiContent \in chatBudget.completions :
        ConversationCompleted(t, transportOk, aiContent)

ChatNext ==
    \/ ChatStart
    \/ ChatMessage
    \/ ChatProcessing
    \/ ChatCompletion
    \/ ChatReply
    \/ ChatWorkflow
    \/ ChatFinish

\* several operators, turns overlapping at their awaits
InitChat ==
    /\ ChatInit
    /\ chatBudget = [updates |-> MaxTurns, starts |-> MaxStarts,
                     inFlight |-> 2,
                     channels |-> Channels,
                     completions |-> {"{chat}", "~~~json{workflow}~~~", "5"}]
    /\ disc = Idle /\ ext = Idle /\ run = Idle /\ call = Idle

SpecChat == InitChat /\ [][ChatNext]_vars

\* one operator sending one message after the other
InitChatSeq ==
    /\ ChatInit
    /\ chatBudget = [updates |-> LongTurns, starts |-> MaxStarts,
                     inFlight |-> 1,
                     channels |-> {1},
                     completions |-> {"{chat}", "~~~json{workflow}~~~"}]
    /\ disc = Idle /\ ext = Idle /\ run = Idle /\ call = Idle

SpecChatSeq == InitChatSeq /\ [][ChatNext]_vars

----------------------------------------------------------------------------
(* Claims about the chat session manager *)

\* the context object currently stored for a chat, if any
ContextOf(chatId) ==
    IF HasContext(chatId) THEN Some(ctxHeap[userContexts[chatId]]) ELSE None

\* a step of a handler that was invoked for chatId
StepFor(chatId) ==
    \/ HandleStartCommand(chatId)
    \/ \E messageText \in Messages : HandleConversationalMessage(chatId, messageText)
    \/ \E t \in turns :
          /\ t.chatId = chatId
          /\ \/ \E sent \in BOOLEAN : SendProcessing(t, sent)
             \/ \E transportOk \in BOOLEAN, aiContent \in Completions :
                   ReceiveCompletion(t, transportOk, aiContent)
             \/ \E sent \in BOOLEAN : SendReply(t, sent)
             \/ \E sent \in BOOLEAN : ExecuteCustomWorkflowWithUpdates(t, sent)
             \/ FinishTurn(t)

\* C1: once every turn has completed, the history stored for a chat holds at most
\* 10 entries, oldest first (the entries that remain are in the order of their
\* timestamps).
C1_HistoryCapped ==
    turns = {} =>
        \A chatId \in Channels :
            LET history == HistoryOf(chatId)
            IN  /\ Len(history) <= HistoryCap
                /\ \A j, k \in DOMAIN history :
                      j < k => history[j].timestamp < history[k].timestamp

\* C2: a step of a handler invoked for chat A leaves the context of every other
\* chat B as it was, and the history handed to processConversationalInput by a
\* turn of chat A holds only entries that were pushed for chat A.
C2_ChannelIsolation ==
    /\ [][\A a \in Channels :
            StepFor(a) => \A b \in Channels \ {a} : ContextOf(b)' = ContextOf(b)]_vars
    /\ [](\A t \in turns : \A k \in DOMAIN t.handed : t.handed[k].chatId = t.chatId)

\* a turn of one chat was handed its history while another chat had a history too
C2_Witness ==
    \E t \in turns :
        /\ t.pc = "ai"
        /\ Len(t.handed) >= 1
        /\ \E b \in Channels \ {t.chatId} : Len(HistoryOf(b)) >= 1

\* the chat and the POST /conversation endpoint together
ConversationNext ==
    \/ ChatNext
    \/ WebMessage
    \/ WebCompletion

SpecConversation == InitChat /\ [][ConversationNext]_vars

\* one operator and the web endpoint, one request after the other, the language
\* model answering with any of the completions
InitTurns ==
    /\ ChatInit
    /\ chatBudget = [updates |-> MaxTurns, starts |-> MaxStarts, inFlight |-> 1,
                     channels |-> {1}, completions |-> Completions]
    /\ disc = Idle /\ ext = Idle /\ run = Idle /\ call = Idle

SpecTurns == InitTurns /\ [][ConversationNext]_vars

\* the runs started by the turn t, as positions in the list left by a step
C20_RunsOf(t) ==
    {k \in DOMAIN runsStarted' :
        runsStarted'[k].chatId = t.chatId /\ runsStarted'[k].turn = t.started}

\* C20: a conversational turn starts a pipeline run if and only if its configurator
\* result has executeWorkflow true together with a workflowConfig, and then it
\* starts exactly one run, with the leadCount of that workflowConfig; a turn with a
\* chat-only result starts no run.
C20_RunIffWorkflowRequested ==
    [][\A t \in turns :
          turns' = turns \ {t} =>
              IF t.aiResponse # None /\ WantsWorkflow(t.aiResponse[1])
              THEN /\ Cardinality(C20_RunsOf(t)) = 1
                   /\ \A k \in C20_RunsOf(t) :
                         runsStarted'[k].leadCount =
                             t.aiResponse[1].workflowConfig[1].leadCount
              ELSE C20_RunsOf(t) = {}]_vars

----------------------------------------------------------------------------
(* Specification of candidate discovery *)

\* no chat traffic
ChatIdle ==
    /\ ChatInit
    /\ chatBudget = [updates |-> 0, starts |-> 0, inFlight |-> 0,
                     channels |-> {},
                     completions |-> {}]

InitDiscovery ==
    /\ ChatIdle
    /\ ext = Idle /\ run = Idle /\ call = Idle
    /\ \E kind \in {"default", "custom"}, count \in 1..MaxCount,
          location \in Locations, specialty \in Specialties :
          /\ kind = "default" => location = None /\ specialty = None
          /\ disc = [pc |-> "call", kind |-> kind, count |-> count,
                     workflowConfig |-> [location |-> location, specialty |-> specialty],
                     numResults |-> 0, response |-> [status |-> "none", results |-> None],
                     result |-> [raised |-> FALSE, message |-> "", value |-> <<>>]]

DiscoveryNext ==
    \/ DiscoverySend
    \/ DiscoveryDefaultReturn
    \/ DiscoveryCustomReturn

SpecDiscovery == InitDiscovery /\ [][DiscoveryNext]_vars

\* C9: a discovery call that returns, returns at most `count` candidates.
C9_AtMostCount ==
    disc.pc = "done" /\ ~disc.result.raised => Len(disc.result.value) <= disc.count

\* the candidate's text (its title, url and text, joined by spaces) contains the
\* location or one of its aliases
C10_MatchesLocation(practice, location) ==
    \E variant \in LocationVariants(ToLowerCase(location)) :
        Includes(SearchText(practice), variant)

\* the candidate's title or text contains the specialty
C10_MatchesSpecialty(practice, specialty) ==
    \/ Includes(ToLowerCase(OrEmpty(practice.title)), ToLowerCase(specialty))
    \/ Includes(ToLowerCase(OrEmpty(practice.text)), ToLowerCase(specialty))

\* C10: every candidate custom discovery returns matches each active filter: the
\* location (or an alias of it) and the specialty, case-insensitively.
C10_ReturnedMatchFilters ==
    disc.pc = "done" /\ disc.kind = "custom" /\ ~disc.result.raised =>
        \A k \in DOMAIN disc.result.value :
            LET practice == disc.result.value[k]
                location == disc.workflowConfig.location
                specialty == disc.workflowConfig.specialty
            IN  /\ Truthy(location) => C10_MatchesLocation(practice, location[1])
                /\ Truthy(specialty) => C10_MatchesSpecialty(practice, specialty[1])

\* both filters were active, removed a result and kept another
C10_Witness ==
    /\ disc.pc = "done" /\ disc.kind = "custom" /\ ~disc.result.raised
    /\ Truthy(disc.workflowConfig.location) /\ Truthy(disc.workflowConfig.specialty)
    /\ Len(disc.result.value) >= 1
    /\ disc.response.results # None
    /\ \E k \in DOMAIN disc.response.results[1] :
          disc.response.results[1][k] \notin Range(disc.result.value)

----------------------------------------------------------------------------
(* Specification of the site extractor *)

InitExtract ==
    /\ ChatIdle
    /\ disc = Idle /\ run = Idle /\ call = Idle
    /\ \E url \in Urls :
          ext = [pc |-> "call", url |-> url, fetched |-> "none",
                 servicesOutcome |-> NoOutcome, locationOutcome |-> NoOutcome,
                 result |-> [raised |-> FALSE, message |-> "", value |-> NoData]]

ExtractNext ==
    \/ ScrapeCall
    \/ ScrapeFetched
    \/ ScrapeServices
    \/ ScrapeLocation

SpecExtract == InitExtract /\ [][ExtractNext]_vars

\* C8: for a well-formed url and every outcome of the page fetch and of the two
\* extraction requests, the extractor raises nothing and returns a profile with a
\* non-empty services sequence and a non-empty location.
C8_ExtractorNeverEmpty ==
    ext.pc = "done" /\ Hostname(ext.url) # None =>
        /\ ~ext.result.raised
        /\ ext.result.value.services # <<>>
        /\ ext.result.value.location # ""

----------------------------------------------------------------------------
(* Specification of the batch sequencer and the lead pipeline *)

InitBatch ==
    /\ ChatIdle
    /\ disc = Idle /\ ext = Idle /\ call = Idle
    /\ run = [pc |-> "start", kind |-> "", leadCount |-> 0, healthcarePractices |-> <<>>,
              i |-> 0, results |-> <<>>, error |-> "", pages |-> 0, sleeps |-> 0,
              lead |-> NoLead, workflowConfig |-> None, response |-> None,
              storeCalls |-> <<>>, hostRepositories |-> <<>>]

BatchNext ==
    \/ ExecuteAutonomousWorkflow
    \/ BatchDiscovered
    \/ ProcessUrls
    \/ LeadExtract
    \/ LeadStore
    \/ LeadProvision
    \/ LeadMaterialize
    \/ LeadDeploy
    \/ LeadFinalize
    \/ BatchSleep
    \/ UrlsNext

SpecBatch == InitBatch /\ [][BatchNext]_vars

\* the batch is inside its loop
InLoop ==
    run.pc \in {"Extracting", "Storing", "Provisioning", "Materializing", "Deploying",
                "Finalizing", "sleeping", "next"}

\* C3: a batch over n discovered candidates returns exactly n results, in discovery
\* order, whichever leads fail; while the loop runs every lead before the current
\* one is recorded, so a failed lead never stops the leads after it.
C3_OneResultPerCandidate ==
    /\ run.pc = "returned" =>
          /\ Len(run.results) = Len(run.healthcarePractices)
          /\ \A k \in DOMAIN run.results :
                run.results[k].url = run.healthcarePractices[k].url
    /\ InLoop =>
          /\ run.i \in DOMAIN run.healthcarePractices
          /\ Len(run.results) = IF run.pc \in {"sleeping", "next"} THEN run.i ELSE run.i - 1
          /\ \A k \in DOMAIN run.results :
                run.results[k].url = run.healthcarePractices[k].url

\* a returned batch of two leads whose first lead failed and whose second succeeded
C3_Witness ==
    /\ run.pc = "returned"
    /\ Len(run.results) = 2
    /\ run.results[1].status = "failed"
    /\ run.results[2].status = "success"

\* C4: every per-lead result has status 'success' or 'failed'; a success carries a
\* demo url, an agent id, a store id and a repository url, none of them empty; a
\* failure carries an error message and none of those four fields.
C4_ResultShape ==
    \A k \in DOMAIN run.results :
        LET result == run.results[k]
        IN  /\ result.status \in {"success", "failed"}
            /\ result.status = "success" =>
                  /\ {"demoUrl", "agentId", "notionId", "repositoryUrl"}
                        \subseteq DOMAIN result
                  /\ result.demoUrl.host # <<>>
                  /\ result.agentId # <<>>
                  /\ result.notionId >= 1
                  /\ result.repositoryUrl.host # <<>>
            /\ result.status = "failed" =>
                  /\ "error" \in DOMAIN result
                  /\ result.error # ""
                  /\ {"demoUrl", "agentId", "notionId", "repositoryUrl"}
                        \cap DOMAIN result = {}

\* both shapes were recorded: a lead that failed at repository materialization and
\* a lead that succeeded
C4_Witness ==
    /\ \E k \in DOMAIN run.results :
          /\ run.results[k].status = "failed"
          /\ run.results[k].error = "Repository creation failed: Request failed"
    /\ \E k \in DOMAIN run.results : run.results[k].status = "success"

\* the deployment collaborator's answers make the try block of deployToRailway
\* throw before domain creation
FailsBeforeDomain(railway) ==
    \/ railway.project # "ok"
    \/ railway.environments = None
    \/ railway.environments = Some(<<>>)
    \/ railway.service # "ok"

\* C5: whatever fails in the deployment phase, deploy returns a result with a url
\* and raises nothing, the lead goes on to its final update, and it is recorded
\* with status 'success'.
C5_DeployNeverFailsLead ==
    /\ [](run.pc = "Finalizing" =>
            /\ run.lead.deployment.url.host # <<>>
            /\ run.lead.deployment.status \in {"deployed", "fallback"})
    /\ [][run.pc = "Deploying" => run'.pc = "Finalizing"]_vars
    /\ [][run.pc = "Finalizing" =>
            /\ Len(run'.results) = Len(run.results) + 1
            /\ run'.results[Len(run'.results)].status = "success"
            /\ run'.results[Len(run'.results)].demoUrl = run.lead.deployment.url]_vars

\* a lead whose deployment failed at project creation is recorded as a success
\* with the fallback url
C5_Witness ==
    \E k \in DOMAIN run.results :
        /\ run.results[k].status = "success"
        /\ run.results[k].demoUrl.path # <<>>
        /\ run.pc = "returned"

\* C6: when domain creation is reached, its tier 1 (command line tool) fails and
\* its tier 2 (domainCreate mutation) succeeds, deploy returns status 'deployed'
\* with the url of the tier-2 domain, not the static fallback url.
C6_TierTwoDomainDeployed ==
    run.pc = "Finalizing" /\ ~FailsBeforeDomain(run.lead.railway)
    /\ RailwayCli.raised /\ run.lead.railway.domain.status = "ok" =>
        /\ run.lead.deployment.status = "deployed"
        /\ run.lead.deployment.url = Url(run.lead.railway.domain.domain, <<>>)
        /\ run.lead.deployment.url # FallbackUrl(run.lead.repository)

\* a deployment whose domain came from tier 2 after tier 1 failed, in a project
\* without a 'production' environment
C6_Witness ==
    /\ run.pc = "Finalizing"
    /\ RailwayCli.raised
    /\ run.lead.railway.domain.status = "ok"
    /\ run.lead.railway.environments = Some(<<[id |-> "env-1", name |-> "staging"]>>)
    /\ run.lead.railway.project = "ok" /\ run.lead.railway.service = "ok"
    /\ run.lead.deployment.status = "deployed"

\* C7: when the deployment collaborator fails (before domain creation, or in both
\* tiers of domain creation), deploy raises nothing and returns status 'fallback'
\* with the url https://<owner>.github.io/<repoName> of the repository.
C7_FallbackUrlOnFailure ==
    run.pc = "Finalizing"
    /\ (\/ FailsBeforeDomain(run.lead.railway)
        \/ RailwayCli.raised /\ run.lead.railway.domain.status # "ok") =>
        /\ run.lead.deployment.status = "fallback"
        /\ run.lead.deployment.url.host = run.lead.repository.owner.login \o <<".", "g", "i", "t", "h", "u", "b", ".", "i", "o">>
        /\ run.lead.deployment.url.path = run.lead.repository.name
        /\ run.lead.repository.name # <<>>
        /\ run.lead.repository.owner.login # <<>>

\* project, environment and service were created and both tiers of domain creation
\* failed
C7_Witness ==
    /\ run.pc = "Finalizing"
    /\ ~FailsBeforeDomain(run.lead.railway)
    /\ RailwayCli.raised /\ run.lead.railway.domain.status = "errors"
    /\ run.lead.deployment.status = "fallback"

----------------------------------------------------------------------------
(* Specification of the filter engine *)

InitFilter ==
    /\ ChatIdle
    /\ disc = Idle /\ ext = Idle /\ run = Idle
    /\ \E practice \in FilterPractices, filters \in SeqsUpTo(FilterPool, MaxFilters) :
          call = [pc |-> "call", fn |-> "passesCustomFilters", practice |-> practice,
                  filters |-> filters, passes |-> TRUE]

FilterNext == PassesCustomFiltersCall

SpecFilter == InitFilter /\ [][FilterNext]_vars

\* the X of an entry 'exclude X' (the entry is read case-insensitively)
C11_Excluded(filter) == SubSeq(ToLowerCase(filter), 9, Len(filter))

\* the entry has the form 'exclude X' with a non-empty X
C11_IsExclude(filter) ==
    StartsWith(ToLowerCase(filter), <<"e", "x", "c", "l", "u", "d", "e", " ">>) /\ Len(filter) > 8

\* title or text contains X, case-insensitively
C11_Contains(practice, x) ==
    \/ Includes(ToLowerCase(OrEmpty(practice.title)), x)
    \/ Includes(ToLowerCase(OrEmpty(practice.text)), x)

\* C11: whatever the position of an entry 'exclude X' in the filter list, a
\* candidate whose title or text contains X (case-insensitively) is rejected.
C11_ExcludeRejects ==
    call.pc = "done" /\ call.fn = "passesCustomFilters" =>
        \A k \in DOMAIN call.filters :
            C11_IsExclude(call.filters[k])
            /\ C11_Contains(call.practice, C11_Excluded(call.filters[k]))
            => ~call.passes

\* the filter, lower-cased, contains one of the keywords
C34_HasKeyword(filter, words) == \E w \in words : Includes(ToLowerCase(filter), w)

\* the words of the filter other than the given keywords
C34_Remaining(filter, words) ==
    LET all == SplitOnSpace(ToLowerCase(filter))
    IN  {all[k] : k \in DOMAIN all} \ (words \cup {<<>>})

\* one of the words appears in the candidate's title or text
C34_Appears(practice, words) ==
    \E x \in words :
        \/ Includes(ToLowerCase(OrEmpty(practice.title)), x)
        \/ Includes(ToLowerCase(OrEmpty(practice.text)), x)

C35_KeywordClasses ==
    call.pc = "done" /\ call.fn = "passesCustomFilters" =>
        /\ (\A k \in DOMAIN call.filters :
                ~C34_HasKeyword(call.filters[k], ExcludeWords \cup RequireWords))
              => call.passes
        /\ (/\ Len(call.filters) = 1
            /\ C34_HasKeyword(call.filters[1], ExcludeWords)
            /\ C34_HasKeyword(call.filters[1], RequireWords)) =>
              (call.passes <=>
                  ~C34_Appears(call.practice, C34_Remaining(call.filters[1], ExcludeWords)))

\* a filter with both kinds of keyword let a candidate pass in which none of its
\* words appears
C35_Witness ==
    /\ call.pc = "done" /\ call.fn = "passesCustomFilters"
    /\ Len(call.filters) = 1
    /\ C34_HasKeyword(call.filters[1], ExcludeWords)
    /\ C34_HasKeyword(call.filters[1], RequireWords)
    /\ ~C34_Appears(call.practice,
                    C34_Remaining(call.filters[1], ExcludeWords \cup RequireWords))
    /\ call.passes

----------------------------------------------------------------------------
(* Specification of the practice ids *)

InitPracticeId ==
    /\ ChatIdle
    /\ disc = Idle /\ ext = Idle /\ run = Idle
    /\ \E domain \in Domains :
          call = [pc |-> "call", fn |-> "generatePracticeId", domain |-> domain,
                  practiceId |-> <<>>]

PracticeIdNext == GeneratePracticeIdCall

SpecPracticeId == InitPracticeId /\ [][PracticeIdNext]_vars

\* C12: generatePracticeId(d) has between 1 and 25 characters, all of them a-z, 0-9
\* or '-', and neither starts nor ends with a hyphen, also when it was cut to 25
\* characters.
C12_PracticeIdWellFormed ==
    call.pc = "done" /\ call.fn = "generatePracticeId" =>
        /\ Len(call.practiceId) \in 1..25
        /\ \A k \in DOMAIN call.practiceId : call.practiceId[k] \in AlphaNum \cup {"-"}
        /\ call.practiceId[1] # "-"
        /\ call.practiceId[Len(call.practiceId)] # "-"

\* the batch is between two leads, or past the last one
BetweenLeads == run.pc \in {"sleeping", "next", "returned"}

\* the methods the current lead has called, in order
CalledOps == [k \in DOMAIN run.lead.calls |-> run.lead.calls[k].op]

\* the lead has called `op` and the call ended with `outcome`
HasCalled(op, outcome) ==
    \E k \in DOMAIN run.lead.calls : run.lead.calls[k] = [op |-> op, outcome |-> outcome]

\* C13: when the store create call of a lead fails, the lead ends Failed with the
\* store's error message and calls nothing after it: no agent is provisioned, no
\* repository created, no deployment attempted, no store update issued.
C13_StoreFailureEndsLead ==
    HasCalled("storeLeadInNotion", "failed") =>
        /\ BetweenLeads
        /\ Len(run.results) = run.i
        /\ run.results[run.i].status = "failed"
        /\ run.results[run.i].error = "Notion storage failed: Request failed"
        /\ CalledOps = <<"scrapeHealthcareWebsite", "storeLeadInNotion">>

\* the store create call of the first of two leads failed
C13_Witness ==
    /\ HasCalled("storeLeadInNotion", "failed")
    /\ run.pc = "sleeping" /\ run.i = 1

\* C14: whether the final store update succeeds or fails, it raises nothing and the
\* lead whose five earlier phases completed is recorded with status 'success'.
C14_UpdateFailureKeepsSuccess ==
    /\ \A outcome \in UpdateOutcomes :
          HasCalled("updateNotionWithResults", outcome) =>
              /\ BetweenLeads
              /\ Len(run.results) = run.i
              /\ run.results[run.i].status = "success"
    /\ run.pc = "Finalizing" =>
          \A outcome \in UpdateOutcomes : ~UpdateNotionWithResults(outcome).raised

\* the update of a lead failed and the lead was recorded
C14_Witness ==
    /\ HasCalled("updateNotionWithResults", "failed")
    /\ HasCalled("createPersonalizedRepository", "ok")
    /\ run.pc = "returned"
    /\ run.results[run.i].status = "success"

\* C15: when a step of repository materialization fails (create, clone, file
\* generation, commit, push), the lead ends Failed and neither the deployment nor
\* the store update is attempted.
C15_MaterializationFailureEndsLead ==
    \A outcome \in RepositoryOutcomes \ {"ok"} :
        HasCalled("createPersonalizedRepository", outcome) =>
            /\ BetweenLeads
            /\ Len(run.results) = run.i
            /\ run.results[run.i].status = "failed"
            /\ \A k \in DOMAIN CalledOps :
                  CalledOps[k] \notin {"deployToRailway", "updateNotionWithResults"}

\* the push of a lead's repository failed
C15_Witness ==
    /\ HasCalled("createPersonalizedRepository", "pushFailed")
    /\ BetweenLeads

\* the methods of the six phases, in the order of the phases
C16_PhaseCalls ==
    <<"scrapeHealthcareWebsite", "storeLeadInNotion", "createElevenLabsAgent",
      "createPersonalizedRepository", "deployToRailway", "updateNotionWithResults">>

\* the phases in their fixed order
C16_Phases ==
    <<"Extracting", "Storing", "Provisioning", "Materializing", "Deploying", "Finalizing">>

\* C16: a lead passes through Extracting, Storing, Provisioning, Materializing,
\* Deploying, Finalizing in this order, without skipping, repeating or going back,
\* and ends in exactly one terminal state: Succeeded after all six, Failed before.
C16_PhaseOrder ==
    /\ Len(CalledOps) <= 6
    /\ \A k \in DOMAIN CalledOps : CalledOps[k] = C16_PhaseCalls[k]
    /\ \A k \in 1..6 : run.pc = C16_Phases[k] => Len(CalledOps) = k - 1
    /\ BetweenLeads /\ run.i >= 1 =>
          /\ Len(run.results) = run.i
          /\ run.results[run.i].status \in {"success", "failed"}
          /\ run.results[run.i].status = "success" <=> Len(CalledOps) = 6

\* a lead went through the six phases and succeeded
C16_Witness ==
    /\ BetweenLeads /\ run.i >= 1
    /\ Len(CalledOps) = 6
    /\ run.results[run.i].status = "success"

\* C17: in a run over more than one lead, exactly one delay occurs between the end
\* of a lead and the start of the next, and none after the last lead.
C17_OneDelayBetweenLeads ==
    /\ run.pc \in {"Extracting", "Storing", "Provisioning", "Materializing", "Deploying",
                   "Finalizing"} => run.sleeps = run.i - 1
    /\ run.pc = "returned" /\ run.i >= 1 => run.sleeps = Len(run.healthcarePractices) - 1

\* C18: at most one lead is in a phase at any time: while lead i is in a phase,
\* every lead before it has reached its terminal state and has its result, and the
\* calls in flight are those of lead i alone.
C18_LeadsSequential ==
    \A k \in 1..6 : run.pc = C16_Phases[k] =>
        /\ \A j \in 1..(run.i - 1) :
              /\ j \in DOMAIN run.results
              /\ run.results[j].url = run.healthcarePractices[j].url
              /\ run.results[j].status \in {"success", "failed"}
        /\ Len(run.results) = run.i - 1
        /\ Len(run.lead.calls) = k - 1

\* the second lead is in a phase after the first lead failed
C18_Witness ==
    /\ run.pc = "Storing" /\ run.i = 2
    /\ run.results[1].status = "failed"

\* the positions of the store requests of a kind made for the lead at position i
StoreCallsOf(op, i) ==
    {k \in DOMAIN run.storeCalls :
        run.storeCalls[k].lead = i /\ run.storeCalls[k].request.op = op}

\* what C36 says of the store requests made so far
C36_StoreCallsInOrder ==
    \A i \in DOMAIN run.healthcarePractices :
        /\ Cardinality(StoreCallsOf("create", i)) <= 1
        /\ Cardinality(StoreCallsOf("update", i)) <= 1
        /\ \A u \in StoreCallsOf("update", i) :
              /\ \E c \in StoreCallsOf("create", i) :
                    /\ c < u
                    /\ run.storeCalls[c].answer >= 1
                    /\ run.storeCalls[u].request.pageId = run.storeCalls[c].answer
              /\ i \in DOMAIN run.results =>
                    /\ run.results[i].status = "success"
                    /\ run.storeCalls[u].request.demoUrl = Some(run.results[i].demoUrl)
                    /\ run.storeCalls[u].request.agentId = run.results[i].agentId
        /\ i \in DOMAIN run.results /\ run.results[i].status = "failed" =>
              StoreCallsOf("update", i) = {}

\* what C36 says of the step that issues an update: deployment has returned, and
\* the request carries what create, deployment and provisioning returned
C36_UpdateAfterDeploy ==
    Len(run'.storeCalls) > Len(run.storeCalls)
    /\ run'.storeCalls[Len(run'.storeCalls)].request.op = "update" =>
        /\ run.pc = "Finalizing"
        /\ run.lead.deployment.status \in {"deployed", "fallback"}
        /\ run.lead.calls[Len(run.lead.calls)].op = "deployToRailway"
        /\ run'.storeCalls[Len(run'.storeCalls)].request =
              [op |-> "update", pageId |-> run.lead.notionPage.id,
               demoUrl |-> Some(run.lead.deployment.url), agentId |-> run.lead.agentId]
        /\ run.lead.agentId = CreateElevenLabsAgent(run.lead.scrapedData)

\* C36: for each lead the store create call is issued at most once and the store
\* update call at most once; the update is issued only after create succeeded and
\* deployment returned, it targets the id returned by create, and it carries
\* exactly the demo URL returned by deployment and the agent id returned by
\* provisioning; a lead that ends Failed never issues an update.
C36_CreateOnceUpdateOnce ==
    /\ [](run.kind \in {"count", "urls"} => C36_StoreCallsInOrder)
    /\ [][run.kind \in {"count", "urls"} => C36_UpdateAfterDeploy]_vars

\* the first lead failed after its page was created and was never updated; the
\* second lead updated the page created for it
C36_Witness ==
    /\ run.pc = "returned" /\ Len(run.results) = 2
    /\ run.results[1].status = "failed" /\ run.results[2].status = "success"
    /\ StoreCallsOf("create", 1) # {} /\ StoreCallsOf("update", 1) = {}
    /\ \E u \in StoreCallsOf("update", 2) : run.storeCalls[u].request.pageId = 2

\* C38: every repository created on the repository host by the pipeline is
\* referenced by the repositoryUrl of a 'success' result: a lead that ends Failed
\* leaves no created repository behind, and its store record (if created) is not
\* left at the initial agent 'pending' / demo URL null values.
C38_NothingLeftBehind ==
    run.kind \in {"count", "urls"} =>
        /\ \A h \in DOMAIN run.hostRepositories :
              LET created == run.hostRepositories[h]
              IN  created.lead \in DOMAIN run.results =>
                     /\ run.results[created.lead].status = "success"
                     /\ run.results[created.lead].repositoryUrl = created.html_url
        /\ \A i \in DOMAIN run.results :
              run.results[i].status = "failed" =>
                 \A c \in StoreCallsOf("create", i) :
                    run.storeCalls[c].answer >= 1 =>
                       \E u \in StoreCallsOf("update", i) :
                          /\ run.storeCalls[u].request.pageId = run.storeCalls[c].answer
                          /\ run.storeCalls[u].request.agentId # CreateRequest.agentId
                          /\ run.storeCalls[u].request.demoUrl # CreateRequest.demoUrl

----------------------------------------------------------------------------
(* Specification of the runs: count-based, url-list and workflow-configured *)

RunsNext ==
    \/ BatchNext
    \/ ExecuteCustomAutonomousWorkflow
    \/ WorkflowDiscovered
    \/ WorkflowPractice

SpecRuns == InitBatch /\ [][RunsNext]_vars

\* the results the search collaborator answered the run with
C19_Searched ==
    IF run.response = None \/ run.response[1].results = None
    THEN <<>> ELSE run.response[1].results[1]

\* what is left of them after the location and specialty filters of a
\* workflow-configured run
C19_Candidates ==
    IF run.kind = "workflow"
    THEN ApplySpecialtyFilter(ApplyLocationFilter(C19_Searched, run.workflowConfig[1]),
                              run.workflowConfig[1])
    ELSE C19_Searched

\* C19: when the search collaborator answers with zero results, or the location
\* and specialty filters leave no candidate, the run ends with a run-level error:
\* no lead phase was executed, no store record created, no result list returned.
C19_NoCandidatesIsRunError ==
    /\ run.response # None /\ run.response[1].status = "ok" /\ Len(C19_Candidates) = 0 =>
          run.pc = "raised"
    /\ run.pc = "raised" =>
          /\ run.error # ""
          /\ run.results = <<>>
          /\ run.healthcarePractices = <<>>
          /\ run.lead.calls = <<>>
          /\ run.pages = 0

\* a workflow-configured run whose two search results were all filtered away
C19_Witness ==
    /\ run.pc = "raised"
    /\ run.kind = "workflow"
    /\ Len(C19_Searched) = 2
    /\ run.error = "No healthcare practices found with custom search"

----------------------------------------------------------------------------
(* Claims about the conversational configurator *)

\* the runs in the list that were started by the turn t
RunsOf(t) ==
    {k \in DOMAIN runsStarted :
        runsStarted[k].chatId = t.chatId /\ runsStarted[k].turn = t.started}

\* the completion is not valid JSON once its code fence is stripped
C21_NotJson(aiContent) == ~JsonParse(StripFence(aiContent)).ok

\* C21: when the completion a turn received is not valid JSON (after the optional
\* code fence is stripped), processConversationalInput raised nothing and returned
\* executeWorkflow false with the raw completion text as the response: the turn
\* went on to its reply and starts no pipeline run.
C21_ParseFailureDegrades ==
    \A t \in turns :
        t.aiContent # None /\ C21_NotJson(t.aiContent[1]) =>
            /\ t.aiResponse # None
            /\ ~t.aiResponse[1].executeWorkflow
            /\ t.aiResponse[1].response = t.aiContent
            /\ t.pc \in {"reply", "apology", "responded"}
            /\ RunsOf(t) = {}

\* a chat turn about to reply with a fenced completion that is not JSON
C21_Witness ==
    \E t \in turns :
        /\ t.pc = "reply"
        /\ t.aiContent = Some("~~~oops~~~")
        /\ t.aiResponse[1].response = Some("~~~oops~~~")

\* the language-model call of the turn t failed at transport level, and the
\* failure reply is being sent
C22_TransportFailed(t) ==
    t.pc = "apology" /\ t.aiContent = None /\ t.aiResponse = None

\* C22: when the language-model call of a turn fails at transport level, the
\* operator receives a failure reply, no pipeline run is started, and the context
\* of the channel is as it was before the turn: its history holds no entry of the
\* turn and its lastWorkflowConfig is the one the turn found.
C22_TransportFailureKeepsContext ==
    \A t \in turns :
        C22_TransportFailed(t) =>
            /\ RunsOf(t) = {}
            /\ \A k \in DOMAIN HistoryOf(t.chatId) :
                  HistoryOf(t.chatId)[k].timestamp < t.started

----------------------------------------------------------------------------
(* Claims about the workflow-configured run *)

\* C23: in a run started from a workflow specification, a candidate that passed
\* the custom filters has been carried through the six per-lead phases (extraction,
\* store create, agent provisioning, repository materialization, deployment, store
\* update) when its result is in the result list.
C23_WorkflowLeadsRunPhases ==
    run.kind = "workflow" /\ run.results # <<>>
    /\ "reason" \notin DOMAIN run.results[Len(run.results)] =>
        /\ CalledOps = C16_PhaseCalls
        /\ run.pages >= 1

\* an exclusion filter of the run's configuration names a word that appears in the
\* candidate's title or text
C37_Rejected(practice) ==
    /\ run.workflowConfig[1].filters # None
    /\ \E k \in DOMAIN run.workflowConfig[1].filters[1] :
          LET filter == run.workflowConfig[1].filters[1][k]
          IN  /\ C34_HasKeyword(filter, ExcludeWords)
              /\ C34_Appears(practice, C34_Remaining(filter, ExcludeWords))

\* C37: in a workflow-specification run, a candidate rejected by the custom filters
\* is recorded in the result list as an unsuccessful entry with a 'filtered out'
\* reason and no lead phase runs for it, so the result list still has one entry per
\* discovered candidate, in discovery order.
C37_FilteredOutRecorded ==
    run.kind = "workflow" /\ run.pc \in {"practice", "returned"} =>
        /\ Len(run.results) <= Len(run.healthcarePractices)
        /\ run.pc = "returned" => Len(run.results) = Len(run.healthcarePractices)
        /\ \A k \in DOMAIN run.results :
              /\ run.results[k].practice = run.healthcarePractices[k].title
              /\ C37_Rejected(run.healthcarePractices[k]) =>
                    /\ ~run.results[k].success
                    /\ "reason" \in DOMAIN run.results[k]
                    /\ run.results[k].reason = "Filtered out by custom criteria"
              /\ ~C37_Rejected(run.healthcarePractices[k]) =>
                    "reason" \notin DOMAIN run.results[k]
        /\ (\A k \in DOMAIN run.results : C37_Rejected(run.healthcarePractices[k])) =>
              run.lead.calls = <<>> /\ run.storeCalls = <<>> /\ run.pages = 0

\* a returned run of two candidates whose first was filtered out and whose second
\* was not
C37_Witness ==
    /\ run.kind = "workflow" /\ run.pc = "returned"
    /\ Len(run.results) = 2
    /\ C37_Rejected(run.healthcarePractices[1])
    /\ ~run.results[1].success
    /\ ~C37_Rejected(run.healthcarePractices[2])
    /\ run.results[2].success

----------------------------------------------------------------------------
(* Claims about the conversation cache *)

\* the entries that the context object used by the turn t holds after a step and
\* that were appended since the turn started
C24_Appended(t) ==
    {e \in Range(ctxHeap'[t.userContext].conversationHistory) : e.timestamp >= t.started}

\* C24: under any interleaving of turns and /start commands on a channel, when a
\* turn completes, every user message and assistant reply appended since it
\* started, and not evicted by the cap, is in the history stored for the channel.
C24_NoAppendLost ==
    [][\A t \in turns :
          turns' = turns \ {t} /\ t.chatId \in Channels =>
              \A e \in C24_Appended(t) :
                  \E k \in DOMAIN HistoryOf(t.chatId)' : HistoryOf(t.chatId)'[k] = e]_vars

\* the history `after` is the history `before` without some of its oldest entries,
\* followed by appended entries; entries were dropped only to keep the cap
C25_OnlyEvicted(before, after) ==
    \E n \in 0..Len(before) :
        /\ Len(after) >= Len(before) - n
        /\ \A k \in 1..(Len(before) - n) : after[k] = before[n + k]
        /\ n > 0 => Len(after) = HistoryCap

\* C25: once a context exists for a channel, no step destroys or replaces it:
\* entries leave its history only through eviction of the oldest entries by the
\* cap, and lastWorkflowConfig is only overwritten by a turn whose result triggers
\* a workflow.
C25_ContextNeverReplaced ==
    [][\A chatId \in Channels :
          HasContext(chatId) =>
              /\ userContexts'[chatId] = userContexts[chatId]
              /\ C25_OnlyEvicted(HistoryOf(chatId), HistoryOf(chatId)')
              /\ ContextOf(chatId)'[1].lastWorkflowConfig
                    # ContextOf(chatId)[1].lastWorkflowConfig =>
                    \E t \in turns :
                        /\ t.chatId = chatId /\ t.pc = "reply"
                        /\ WantsWorkflow(t.aiResponse[1])
                        /\ ContextOf(chatId)'[1].lastWorkflowConfig
                              = t.aiResponse[1].workflowConfig]_vars

----------------------------------------------------------------------------
(* Specification of the startup *)

InitStartup ==
    /\ ChatIdle
    /\ disc = Idle /\ ext = Idle /\ run = Idle
    /\ \E env \in [Range(RequiredEnv) -> EnvValues] :
          call = [pc |-> "call", fn |-> "constructor", env |-> env, routes |-> FALSE,
                  error |-> "", handled |-> {}]

StartupNext ==
    \/ NewAgent
    \/ Start
    \/ HandleRequest

SpecStartup == InitStartup /\ [][StartupNext]_vars

\* a required variable is absent from the environment the process started with
C26_SomethingAbsent ==
    \E name \in Range(RequiredEnv) : call.env[name] = None \/ call.env[name] = Some("")

\* C26: if a required credential or identifier is absent at startup, construction
\* of the agent raises an error naming it, the server never listens, and no
\* request (batch, url list, conversation, webhook) is ever handled.
C26_FailFastAtStartup ==
    C26_SomethingAbsent =>
        /\ call.pc \in {"call", "exited"}
        /\ call.pc = "exited" =>
              /\ call.error \in Range(RequiredEnv)
              /\ call.env[call.error] = None \/ call.env[call.error] = Some("")
        /\ call.handled = {}

\* the process ended because the last variable the constructor reads is set to
\* the empty string, all others being set
C26_Witness ==
    /\ call.pc = "exited"
    /\ call.error = "EXA_API_KEY"
    /\ call.env["EXA_API_KEY"] = Some("")
    /\ \A name \in Range(RequiredEnv) \ {"EXA_API_KEY"} : call.env[name] = Some("value")

----------------------------------------------------------------------------
(* Specification of the webhook *)

InitWebhook ==
    /\ ChatIdle
    /\ disc = Idle /\ ext = Idle /\ run = Idle
    /\ \E update \in Updates :
          call = [pc |-> "call", fn |-> "webhook", update |-> update, status |-> 0,
                  handled |-> Handled("none", <<>>, <<>>)]

WebhookNext == PostWebhookTelegram

SpecWebhook == InitWebhook /\ [][WebhookNext]_vars

\* the count of a '/workflow [count]' command, for the counts that are delivered
C27_Count(text) ==
    CASE text = <<"/", "w", "o", "r", "k", "f", "l", "o", "w", " ", "0">> -> Some(0)
      [] text = <<"/", "w", "o", "r", "k", "f", "l", "o", "w", " ", "1">> -> Some(1)
      [] text = <<"/", "w", "o", "r", "k", "f", "l", "o", "w", " ", "3">> -> Some(3)
      [] text = <<"/", "w", "o", "r", "k", "f", "l", "o", "w", " ", "1", "0">> -> Some(10)
      [] text = <<"/", "w", "o", "r", "k", "f", "l", "o", "w", " ", "1", "1">> -> Some(11)
      [] OTHER -> None

\* C27: a '/workflow [count]' command received on the chat channel starts one
\* batch run for count leads when 1 <= count <= 10, and is answered with an error
\* reply and no run when count is outside 1..10; the advertised commands /status,
\* /health and /help are each answered with a reply.
C27_AdvertisedCommandsAnswered ==
    call.pc = "done" /\ call.update.text # None =>
        LET text == call.update.text[1]
        IN  /\ C27_Count(text) # None =>
                  /\ Len(call.handled.sent) = 1
                  /\ call.handled.started =
                        IF C27_Count(text)[1] \in 1..10 THEN <<C27_Count(text)[1]>> ELSE <<>>
            /\ text \in {<<"/", "s", "t", "a", "t", "u", "s">>, <<"/", "h", "e", "a", "l", "t", "h">>, <<"/", "h", "e", "l", "p">>} => Len(call.handled.sent) = 1

\* the run has ended: it raised, it was rejected, or it returned its results
C40_Ended == run.pc \in {"raised", "rejected", "returned"}

\* the runs when every collaborator call eventually returns or fails: a run that
\* has not ended does not wait forever (weak fairness of the steps of the run,
\* which are enabled in every state but the ended ones)
SpecRunsFair ==
    InitBatch /\ [][RunsNext]_vars /\ ([]<>C40_Ended \/ []<><<RunsNext>>_vars)

\* the run is in its loop over a candidate list
C40_InLoop == run.pc \notin {"start", "discovering"} /\ ~C40_Ended

\* every candidate of the list has its result, a success or a failure
C40_AllLeadsEnded ==
    /\ Len(run.results) = Len(run.healthcarePractices)
    /\ \A k \in DOMAIN run.results :
          IF run.kind = "workflow" THEN run.results[k].success \in BOOLEAN
          ELSE run.results[k].status \in {"success", "failed"}

\* a step of the run never goes back to a lead or to a call of the current lead:
\* the loop index moves forward by one and only past a lead that has its result,
\* no result is taken back, and the lead in progress has made each of its calls
\* once
C40_NoRetry ==
    /\ run'.i \in {run.i, run.i + 1}
    /\ Len(run'.results) \in {Len(run.results), Len(run.results) + 1}
    /\ run'.i = run.i + 1 /\ run.i >= 1 => Len(run'.results) = run.i
    /\ C40_InLoop => Len(run.results) \in {run.i - 1, run.i}
    /\ \A j, k \in DOMAIN run'.lead.calls :
          run'.lead.calls[j].op = run'.lead.calls[k].op => j = k

\* what is left of the lead in progress: the phases of processHealthcareWebsite
\* still ahead, then the pause or the step to the next iteration
C40_StepsLeft ==
    CASE run.pc = "Extracting" -> 8
      [] run.pc = "Storing" -> 7
      [] run.pc = "Provisioning" -> 6
      [] run.pc = "Materializing" -> 5
      [] run.pc = "Deploying" -> 4
      [] run.pc = "Finalizing" -> 3
      [] run.pc = "practice" -> 3
      [] run.pc = "sleeping" -> 2
      [] run.pc = "next" -> 1
      [] OTHER -> 0

\* the distance of the run from its return: the stage before the loop, then the
\* candidates not yet finished and what is left of the one in progress
C40_Distance ==
    IF run.pc = "start" THEN <<2, 0>>
    ELSE IF run.pc = "discovering" THEN <<1, 0>>
    ELSE IF C40_InLoop
    THEN <<0, 10 * (Len(run.healthcarePractices) - run.i) + C40_StepsLeft>>
    ELSE <<0, 0>>

\* every step of the run brings it closer to its return
C40_Closer ==
    \/ C40_Distance'[1] < C40_Distance[1]
    \/ C40_Distance'[1] = C40_Distance[1] /\ C40_Distance'[2] < C40_Distance[2]

\* C40: every pipeline run over a finite candidate list terminates: provided each
\* collaborator call eventually returns or fails, the run eventually returns its
\* result list after every lead has reached Succeeded or Failed, and no lead is
\* retried or processed twice (no step of the run goes back to a lead, to a call
\* of the current lead, or to an earlier position of the loop).
C40_RunTerminates ==
    /\ C40_InLoop ~> (run.pc = "returned" /\ C40_AllLeadsEnded)
    /\ [][C40_NoRetry /\ C40_Closer]_vars

\* a returned run of two leads, the first failed and the second succeeded
C40_Witness ==
    /\ run.pc = "returned" /\ run.kind = "count"
    /\ Len(run.healthcarePractices) = 2 /\ Len(run.results) = 2
    /\ run.results[1].status = "failed" /\ run.results[2].status = "success"
    /\ run.sleeps = 1

----------------------------------------------------------------------------
(* Specification of the run notices *)

InitNotices ==
    /\ ChatIdle
    /\ disc = Idle /\ ext = Idle /\ run = Idle
    /\ \E chatId \in Channels, workflowConfig \in RunConfigs :
          call = [pc |-> "call", fn |-> "executeCustomWorkflowWithUpdates",
                  chatId |-> chatId, workflowConfig |-> workflowConfig,
                  notices |-> <<>>, discoveryAfter |-> 0, ending |-> None]

NoticesNext ==
    \/ SendStartingNotice
    \/ RunDiscovers
    \/ RunEnds
    \/ SendCompletionNotice
    \/ SendFailureNotice
    \/ SendApology
    \/ SendSeriousError

\* every collaborator call eventually returns or fails
SpecNotices == InitNotices /\ [][NoticesNext]_vars /\ WF_vars(NoticesNext)

\* the run of the turn was started
C28_RunStarted == call.pc \notin {"call", "running"} /\ call.discoveryAfter > 0

\* the terminal notices (completion summary, no-leads notice, failure notice)
\* that were delivered
C28_Terminal ==
    {k \in DOMAIN call.notices :
        call.notices[k].kind \in {"complete", "noLeads", "failed"} /\ call.notices[k].sent}

\* the acknowledgment was sent before the first discovery call of the run
C28_AcknowledgedFirst ==
    call.discoveryAfter > 0 =>
        /\ call.discoveryAfter = 1
        /\ call.notices[1] = [kind |-> "started", sent |-> TRUE]

\* C28: every pipeline run started from a chat turn eventually sends the operator
\* exactly one terminal notice (completion summary, no-leads notice or failure
\* notice), provided every collaborator call eventually returns or fails; the
\* 'started' acknowledgment is sent before the run's first discovery call.
C28_OneTerminalNotice ==
    /\ C28_RunStarted ~> (call.pc = "done" /\ Cardinality(C28_Terminal) = 1)
    /\ []C28_AcknowledgedFirst

----------------------------------------------------------------------------
(* Specification of the deployment requests *)

InitDeploy ==
    /\ ChatIdle
    /\ disc = Idle /\ ext = Idle /\ run = Idle
    /\ \E practiceData \in DeployPractices, railway \in RailwayOutcomes :
          call = [pc |-> "call", fn |-> "deployToRailway", practiceData |-> practiceData,
                  repository |-> CreatePersonalizedRepository(practiceData, "ok").value,
                  railway |-> railway, projectId |-> "", prodEnv |-> None,
                  serviceId |-> "", requests |-> <<>>, result |-> NoDeployment]

DeployNext ==
    \/ DeployCreateProject
    \/ DeployGetEnvironments
    \/ DeployCreateService
    \/ DeploySetVariables
    \/ DeployCreateDomain
    \/ DeployFallback

SpecDeploy == InitDeploy /\ [][DeployNext]_vars

\* the positions of the requests of an operation by a tier
RequestsOf(op, tier) ==
    {k \in DOMAIN call.requests : call.requests[k].op = op /\ call.requests[k].tier = tier}

\* a request of the call with the given operation failed
C29_Failed(op) ==
    \E k \in DOMAIN call.requests : call.requests[k].op = op /\ call.requests[k].raised

\* C29: the structured-API (tier 2) domain creation is called only after the CLI
\* (tier 1) domain creation of the same deploy() call was attempted and failed, and
\* it is called with the same project, environment and service identifiers; when
\* tier-1 domain creation succeeds, or when project creation, environment listing
\* or service creation fails, tier 2 is never called.
C29_TierTwoOnlyAfterTierOneFailed ==
    /\ \A d \in RequestsOf("domainCreate", "graphql") :
          /\ \E k \in RequestsOf("domain generate", "cli") :
                /\ k < d
                /\ call.requests[k].raised
                /\ call.requests[k].serviceId = call.requests[d].serviceId
          /\ call.requests[d].projectId = RailwayCreateProject(call.railway.project).value.id
          /\ call.railway.environments # None
          /\ ProdEnv(call.railway.environments[1]) # None
          /\ call.requests[d].environmentId = ProdEnv(call.railway.environments[1])[1].id
          /\ call.requests[d].serviceId = RailwayCreateService(call.railway.service).value.id
          /\ call.requests[d].projectId # "" /\ call.requests[d].serviceId # ""
    /\ (\/ \E k \in RequestsOf("domain generate", "cli") : ~call.requests[k].raised
        \/ C29_Failed("projectCreate")
        \/ C29_Failed("environments")
        \/ C29_Failed("serviceCreate")) =>
          RequestsOf("domainCreate", "graphql") = {}

\* a deployment whose tier-2 domain creation was called after tier 1 failed, for
\* the production environment listed second
C29_Witness ==
    /\ call.fn = "deployToRailway" /\ call.pc = "done"
    /\ \E d \in RequestsOf("domainCreate", "graphql") :
          /\ call.requests[d - 1] = Request("domain generate", "cli", "", "", "service-1", TRUE)
          /\ call.requests[d].environmentId = "env-2"
    /\ call.result.status = "deployed"

C31_VariablesFailed ==
    \E k \in DOMAIN call.requests :
        call.requests[k].op \in {"variables set", "variableUpsert"} /\ call.requests[k].raised

\* both tiers of domain creation were attempted and failed
C31_DomainFailed ==
    /\ \E k \in RequestsOf("domain generate", "cli") : call.requests[k].raised
    /\ \E d \in RequestsOf("domainCreate", "graphql") : call.requests[d].raised

\* C31: a failure of variable setting (through the CLI, through the structured API,
\* or both) never raises out of the variable-setting step: domain creation is still
\* attempted afterwards and deploy() can still return status 'deployed'; only a
\* domain creation failure in both tiers leads to the static fallback from this
\* point.
C31_VariableFailureNotFatal ==
    call.fn = "deployToRailway" /\ C31_VariablesFailed =>
        /\ call.pc \in {"domain", "catch", "done"}
        /\ call.pc # "domain" => RequestsOf("domain generate", "cli") # {}
        /\ call.pc = "catch" => C31_DomainFailed
        /\ call.pc = "done" =>
              /\ call.result.status = "fallback" <=> C31_DomainFailed
              /\ call.result.status = "deployed" <=> ~C31_DomainFailed

\* variable setting failed in both tiers and the deployment returned 'deployed'
C31_Witness ==
    /\ call.fn = "deployToRailway" /\ call.pc = "done"
    /\ \E k \in RequestsOf("variables set", "cli") : call.requests[k].raised
    /\ \E v \in RequestsOf("variableUpsert", "graphql") : call.requests[v].raised
    /\ call.result.status = "deployed"
    /\ call.result.deploymentMethod = "railway-mcp-direct"

\* the environments the collaborator listed during the call
C32_Listed == call.railway.environments[1]

\* the requests of the call that carry an environment identifier
C32_WithEnvironment == RequestsOf("variableUpsert", "graphql") \cup RequestsOf("domainCreate", "graphql")

\* C32: deploy() uses the environment named 'production' when the listed
\* environments contain one, and otherwise the first listed environment; the
\* identifiers of the chosen environment are the ones passed to variable setting
\* and domain creation, for every environment list the collaborator can return
\* (including an empty list).
C32_ProductionElseFirst ==
    /\ \A r \in C32_WithEnvironment :
          /\ call.railway.environments # None
          /\ C32_Listed # <<>>
          /\ IF \E k \in DOMAIN C32_Listed : C32_Listed[k].name = "production"
             THEN \E k \in DOMAIN C32_Listed :
                     /\ C32_Listed[k].name = "production"
                     /\ call.requests[r].environmentId = C32_Listed[k].id
             ELSE call.requests[r].environmentId = C32_Listed[1].id
    /\ call.fn = "deployToRailway" /\ call.pc = "done"
       /\ call.railway.project = "ok" /\ call.railway.service = "ok"
       /\ call.railway.environments # None =>
          IF C32_Listed = <<>>
          THEN C32_WithEnvironment = {} /\ call.result.status = "fallback"
          ELSE /\ RequestsOf("variableUpsert", "graphql") # {}
               /\ RequestsOf("domainCreate", "graphql") # {}

\* the production environment was listed second and its identifier went to the
\* variableUpsert and domainCreate mutations
C32_Witness ==
    /\ call.fn = "deployToRailway" /\ call.pc = "done"
    /\ call.railway.environments # None
    /\ Len(C32_Listed) = 2 /\ C32_Listed[2].name = "production"
    /\ \E v \in RequestsOf("variableUpsert", "graphql") :
          call.requests[v].environmentId = C32_Listed[2].id
    /\ \E d \in RequestsOf("domainCreate", "graphql") :
          call.requests[d].environmentId = C32_Listed[2].id

\* the url of the result came from the domainCreate mutation (tier 2)
C33_BySecondary ==
    /\ call.result.status = "deployed"
    /\ \E d \in RequestsOf("domainCreate", "graphql") : ~call.requests[d].raised

\* C33: a DeploymentResult has status 'fallback' exactly when its method is the
\* static fallback, and status 'deployed' otherwise; its method identifies which
\* tier produced the URL, distinguishing a primary (CLI) domain from a secondary
\* (structured-API) domain.
C33_MethodIdentifiesTier ==
    call.fn = "deployToRailway" /\ call.pc = "done" =>
        /\ call.result.status = "fallback" <=> call.result.deploymentMethod = "github-pages"
        /\ call.result.status = "deployed" <=> call.result.deploymentMethod # "github-pages"
        /\ C33_BySecondary =>
              call.result.deploymentMethod #
                 Deployed(RailwayCreateDomain(CliSucceeds, call.railway.domain).value).deploymentMethod

----------------------------------------------------------------------------
(* Specification of the completion summaries *)

InitSummary ==
    /\ ChatIdle
    /\ disc = Idle /\ ext = Idle /\ run = Idle
    /\ \E chatId \in Channels :
          \/ \E results \in SeqsUpTo(LeadResults, MaxLeads) \ {<<>>} :
                call = [pc |-> "call", fn |-> "executeWorkflowWithUpdates", chatId |-> chatId,
                        results |-> results, summary |-> [successCount |-> 0, total |-> 0]]
          \/ \E results \in SeqsUpTo(PracticeResults, MaxLeads) \ {<<>>} :
                call = [pc |-> "call", fn |-> "executeCustomWorkflowWithUpdates",
                        chatId |-> chatId, results |-> results,
                        summary |-> [successCount |-> 0, total |-> 0]]

SummaryNext == SendSummary

SpecSummary == InitSummary /\ [][SummaryNext]_vars

\* the outcome of the result is success
C39_Succeeded(r) == IF "status" \in DOMAIN r THEN r.status = "success" ELSE r.success

\* C39: the completion notice sent to the operator after a batch run reports a
\* success count equal to the number of results of that run whose outcome is
\* success, for both the count-based batch run (executeWorkflowWithUpdates) and the
\* workflow-specification run (executeCustomWorkflowWithUpdates).
C39_SummaryCountsSuccesses ==
    call.pc = "done" /\ call.fn \in {"executeWorkflowWithUpdates",
                                      "executeCustomWorkflowWithUpdates"} =>
        /\ call.summary.total = Len(call.results)
        /\ call.summary.successCount =
              Cardinality({k \in DOMAIN call.results : C39_Succeeded(call.results[k])})

====
